---- MODULE Spec2Model ----
(***************************************************************************)
(* PyMFEA nonlinear solution engine: NonlinearSolver.solve (Newton-Raphson *)
(* with line search and automatic step control), GlobalAssembler,          *)
(* the integration-point state generations of the C3D8 TL/UL elements and  *)
(* the part of SolverWorker.run that calls the solver.                     *)
(*                                                                         *)
(* Numbers.  Pseudo-time is counted in units of 1e-10 / 2^MaxAttempts, so  *)
(* that dt*0.5 and dt*1.5 are exact for every step attempt the model       *)
(* takes.  Displacements are counted in units of 1/2^max_ls_iter of the    *)
(* unit of a Newton increment, so that alpha*du is exact for every damping *)
(* factor the line search can return.  Residual norms, the outcome of an   *)
(* element evaluation and the solution of the linear system are inputs of  *)
(* the solver: they are drawn from small sets at the place the code        *)
(* obtains them.                                                           *)
(***************************************************************************)
EXTENDS Integers, Sequences, FiniteSets, TLC

\* ---------------------------------------------------------------- bounds
MaxAttempts == 3        \* step attempts (passes of the while loop) explored
NumElems == 2           \* elements in the mesh
NumNodes == 12          \* nodes in the mesh (two hexahedra sharing a face)

\* ------------------------------------------------------ program constants
max_ls_iter == 5        \* _line_search(..., max_ls_iter=5)
CInv == 10000           \* 1/c, c = 1e-4 the Armijo parameter
MaxDuLimit == 1000000   \* divergence guard np.max(np.abs(du)) > 1e6
NumGP == 8              \* integration points of a C3D8 element

RECURSIVE Pow2(_)
Pow2(n) == IF n = 0 THEN 1 ELSE 2 * Pow2(n - 1)

TimeUnit == Pow2(MaxAttempts)       \* 1e-10 in model time units
Micro == 10000 * TimeUnit           \* 1e-6 in model time units
min_dt == Micro                     \* min_dt = 1e-6
ClampEps == TimeUnit                \* the 1e-10 added by the end-time clamp
AlphaOne == Pow2(max_ls_iter)       \* alpha = 1.0 in model units (1/32)

Elems == 1..NumElems
GP == 1..NumGP
num_dofs == NumNodes * 3
Dofs == 1..num_dofs

\* ------------------------------------------------------------ input sets
EndTimeChoices == {3 * Micro}
Dt0Choices == {2 * Micro, 4 * Micro}
MaxIterChoices == {2}
TolChoices == {6000}
ResVals == {5000, 10001}            \* residual norms of a main assembly
LsResVals == {5000, 10000, 10001}   \* residual norms of a line-search pass
FailPoints == {5}                   \* integration points that may fail
Formulations == {"TL", "UL"}
\* reference geometry: per element the first integration point with a
\* degenerate reference Jacobian, 0 for a sound element
BadGeomChoices ==
    {[e \in Elems |-> 0],
     [e \in Elems |-> IF e = NumElems THEN 5 ELSE 0]}

Zero == [i \in Dofs |-> 0]
\* solutions spsolve may return: one whose largest component is exactly at
\* the divergence limit, one with a component just beyond it
DuOk == [i \in Dofs |-> IF i = 1 THEN 1 ELSE IF i = 2 THEN MaxDuLimit ELSE 0]
DuBig == [i \in Dofs |-> IF i = num_dofs THEN 0 - (MaxDuLimit + 1) ELSE 0]
DuChoices == {DuOk, DuBig}

VecAdd(a, b) == [i \in Dofs |-> a[i] + b[i]]
VecScale(k, a) == [i \in Dofs |-> k * a[i]]
Abs(x) == IF x < 0 THEN 0 - x ELSE x

\* ------------------------------------------------- integration-point state
NoneState == [kind |-> "None", ep |-> 0]

\* J2PlasticMaterial.create_state: PlasticState() with zero fields
create_state == [kind |-> "PlasticState", ep |-> 0]

\* PlasticState.clone / copy: an independent record with the same fields
clone(s) == [kind |-> s.kind, ep |-> s.ep]

\* compute_stress with a return mapping that takes the multiplier back
compute_stress_softening(state, dg) ==
    LET s0 == IF state.kind = "None" THEN create_state ELSE state
        new_state == clone(s0)
    IN  [new_state EXCEPT !.ep = s0.ep - dg]

\* J2PlasticMaterial.compute_stress, state part: a None state is replaced by
\* a fresh one, the result state is a copy of the input with the equivalent
\* plastic strain advanced by the plastic multiplier dg >= 0 of the point.
compute_stress(state, dg) ==
    LET s0 == IF state.kind = "None" THEN create_state ELSE state
        new_state == clone(s0)
    IN  [new_state EXCEPT !.ep = s0.ep + dg]

\* C3D8_Nonlinear_Base._init_gp_states: no material of the package has a
\* create_initial_state attribute, so both generations start as [None] * 8.
init_gp_states == [g \in GP |-> NoneState]

\* C3D8_TL / C3D8_UL.compute_element for one element.  out.failAt = 0: all 8
\* points are evaluated; out.failAt = k: the points before k are evaluated
\* and written to the trial generation, then point k returns failed = True.
compute_element(cur_e, com_e, out) ==
    [failed |-> out.failAt # 0,
     states |-> [g \in GP |->
                   IF out.failAt = 0 \/ g < out.failAt
                   THEN compute_stress(
                          IF com_e[g].kind # "None" THEN clone(com_e[g])
                          ELSE NoneState, out.dg)
                   ELSE cur_e[g]]]

\* commit_state with a loop that starts at the second integration point
commit_state_skip_first(cur_e, com_e) ==
    [g \in GP |-> IF g > 1 /\ cur_e[g].kind # "None" THEN clone(cur_e[g])
                  ELSE com_e[g]]

\* C3D8_Nonlinear_Base.commit_state: every non-None trial state is cloned
\* into the committed generation.
commit_state(cur_e, com_e) ==
    [g \in GP |-> IF cur_e[g].kind # "None" THEN clone(cur_e[g]) ELSE com_e[g]]

\* ------------------------------------------------------- GlobalAssembler
\* Index of the element at which the loop of assemble_generic breaks
\* (0: the loop runs to the end).
FirstFailed(outs) ==
    IF \E e \in Elems : outs[e].failAt # 0
    THEN CHOOSE e \in Elems : /\ outs[e].failAt # 0
                              /\ \A f \in Elems : outs[f].failAt # 0 => e <= f
    ELSE 0

\* the loop of assemble_generic without its break
AssembleCalls_no_break(outs) ==
    [i \in 1..NumElems |-> [elem |-> i, failed |-> outs[i].failAt # 0]]

\* The invocations of the element routine made by the loop of
\* assemble_generic, in order, each with the failed flag it returned: the
\* loop breaks after the first invocation that reports failure.
AssembleCalls(outs) ==
    LET ff == FirstFailed(outs)
    IN  [i \in 1..(IF ff = 0 THEN NumElems ELSE ff) |->
           [elem |-> i, failed |-> outs[i].failAt # 0]]

\* GlobalAssembler.assemble_generic with the nonlinear element routine: the
\* returned triple, the routine invocations and the trial generation after.
assemble_generic(outs, cur, com) ==
    LET calls == AssembleCalls(outs)
        called == {calls[i].elem : i \in DOMAIN calls}
        failed == \E i \in DOMAIN calls : calls[i].failed
    IN  [K |-> IF failed THEN "None" ELSE "csr",
         F_int |-> IF failed THEN "None" ELSE "vec",
         failed |-> failed,
         calls |-> calls,
         cur |-> [e \in Elems |->
                    IF e \in called
                    THEN compute_element(cur[e], com[e], outs[e]).states
                    ELSE cur[e]]]

NoAsm == [K |-> "None", F_int |-> "None", failed |-> FALSE]

\* no evaluation of the step attempt has stored a state at the point yet
NotWritten == [by |-> "none", u |-> Zero]

\* The trial states an assembly stores: the points of the elements the loop
\* of assemble_generic reaches, up to the point that fails, are stored by
\* this assembly, evaluated at u_eval; the others keep what they had.
written_by(outs, origin, by, u_eval) ==
    CHOOSE w \in
        {[e \in Elems |->
            IF \E i \in DOMAIN calls : calls[i].elem = e
            THEN [g \in GP |->
                    IF outs[e].failAt = 0 \/ g < outs[e].failAt
                    THEN stored
                    ELSE origin[e][g]]
            ELSE origin[e]] :
          calls \in {AssembleCalls(outs)},
          stored \in {[by |-> by, u |-> u_eval]}} : TRUE

\* the main assembly evaluated at the committed displacement
u_trial_committed(u, acc) == u

\* solve, line 170: u_trial = self.u_current + du_accum
u_trial(u, acc) == VecAdd(u, acc)

\* _line_search, line 100: u_trial = u_base + alpha * du
ls_u_trial(u_base, alpha, d) == VecAdd(u_base, VecScale(alpha, d))

VARIABLES
    cfg,            \* config, formulation and reference geometry of the job
    pc,             \* position of the worker thread
    current_time, dt, iter_i, converged,
    u_current,      \* self.u_current: committed displacement
    du_accum,       \* displacement increment accumulated in the step
    asm,            \* (K, F_int, failed) returned by the last assembly
    calls,          \* element routine invocations of the last assembly,
                    \* each with the failed flag it returned
    res_norm, du,   \* residual norm and Newton direction of the iteration
    ls,             \* locals of _line_search
    gp_states_committed, gp_states_current,
    interrupt,      \* QThread interruption flag read by check_interrupt
    ret,            \* value returned by solve
    signal,         \* what the worker emitted to the caller
    attempts,       \* passes of the while loop so far
    written_at,     \* for each trial state: the assembly of the present
                    \* step attempt that stored it and the displacement
                    \* it was evaluated at
    asm_job,        \* one call of GlobalAssembler.assemble_generic on its own
    bc_job,         \* one use of BoundaryConditionHandler on its own
    mat_job,        \* calls of the constitutive model on their own
    elem_job        \* one element's state generations on their own

solver_vars ==
    <<cfg, pc, current_time, dt, iter_i, converged, u_current, du_accum,
      asm, calls, res_norm, du, ls, gp_states_committed,
      gp_states_current, interrupt, ret, signal, attempts, written_at>>

\* the library routines exercised on their own, outside a solver run
lib_vars == <<asm_job, bc_job, mat_job, elem_job>>

vars == <<solver_vars, lib_vars>>

NoJob == [stage |-> "none"]

LsIdle == [alpha |-> AlphaOne, ls_iter |-> 0, bound |-> FALSE, res_norm_new |-> 0]

Init ==
    /\ asm_job = NoJob /\ bc_job = NoJob /\ mat_job = NoJob
    /\ elem_job = NoJob
    /\ cfg \in [end_time : EndTimeChoices, initial_dt : Dt0Choices,
                max_iter : MaxIterChoices, tol : TolChoices,
                form : Formulations, badAt : BadGeomChoices]
    /\ pc = "step"
    /\ current_time = 0
    /\ dt = cfg.initial_dt
    /\ iter_i = 0
    /\ converged = FALSE
    /\ u_current = Zero
    /\ du_accum = Zero
    /\ asm = NoAsm
    /\ calls = << >>
    /\ res_norm = 0
    /\ du = Zero
    /\ ls = LsIdle
    /\ gp_states_committed = [e \in Elems |-> init_gp_states]
    /\ gp_states_current = [e \in Elems |-> init_gp_states]
    /\ interrupt = FALSE
    /\ ret = Zero
    /\ signal = "none"
    /\ attempts = 0
    /\ written_at = [e \in Elems |-> [g \in GP |-> NotWritten]]

\* ------------------------------------------------------- inputs of a pass
\* Outcomes one evaluation of element e at displacement u_eval can have.
\* A degenerate reference Jacobian (det(J0) <= 1e-12 in TL, a singular J_ref
\* in UL) is a property of the mesh and fails the same point every time.
\* UL also fails on det(F) <= 1e-6, which depends on the displacement; at the
\* committed displacement the last evaluation succeeded (or F = I), so only
\* another displacement can fail.
MayFail(e, u_eval) ==
    IF cfg.badAt[e] # 0 THEN {cfg.badAt[e]}
    ELSE IF cfg.form = "UL" /\ u_eval # u_current THEN {0} \cup FailPoints
    ELSE {0}

\* Plastic multiplier of an evaluation at u_eval.  At zero displacement
\* F = I, the strain and the trial stress vanish and the point is elastic;
\* the jobs explored load the body beyond yield at any other displacement.
PlasticMultiplier(u_eval) == IF u_eval = Zero THEN 0 ELSE 1

\* The outcomes of one pass over the elements at u_eval: at most one element
\* fe fails for its deformation, at point k (elements after the first
\* failing one are never evaluated).
Outs(u_eval) ==
    {[e \in Elems |->
        [failAt |-> IF cfg.badAt[e] # 0 THEN cfg.badAt[e]
                    ELSE IF e = fe THEN k ELSE 0,
         dg |-> PlasticMultiplier(u_eval)]] :
      fe \in {0} \cup {e \in Elems : MayFail(e, u_eval) # {0}},
      k \in FailPoints}

MaxAbs(d) ==
    CHOOSE m \in {Abs(d[i]) : i \in Dofs} : \A i \in Dofs : Abs(d[i]) <= m

\* np.max(du) > 1e6: the absolute value left out
Diverged_no_abs(d) == \E i \in Dofs : d[i] > MaxDuLimit

\* np.max(np.abs(du)) > 1e6
Diverged(d) == MaxAbs(d) > MaxDuLimit

\* res_norm_new < res_norm_old * (1 - c * alpha), with alpha = a / AlphaOne
\* and c = 1 / CInv, multiplied out so that both sides are integers.
Armijo(rn, ro, a) == (ro - rn) * CInv * AlphaOne > ro * a

\* the poll left out
check_interrupt_never == FALSE

\* self.check_interrupt and self.check_interrupt(): the worker installs
\* QThread.isInterruptionRequested as the callback.
check_interrupt == interrupt

\* returning the trial displacement u_current + du_accum instead
InterruptReturn_trial(u, acc) == VecAdd(u, acc)

\* the value solve returns when the poll trips: return self.u_current
InterruptReturn(u, acc) == u

\* the failed flag of the main assembly not looked at
assembly_failed_ignored(a) == FALSE

\* if assembly_failed: ... break
assembly_failed(a) == a.failed

\* range(max_iter + 1): one pass too many
LoopContinues_one_more(it) == it + 1 < cfg.max_iter + 1

\* for iter_i in range(max_iter): is there another pass after pass it
LoopContinues(it) == it + 1 < cfg.max_iter

\* dt *= 0.5
CutBack(d) == d \div 2

\* dt <= min_dt
TooSmall_or_equal(d) == d <= min_dt

\* the threshold that never stops the solve
TooSmall_never(d) == FALSE

\* if dt < min_dt: "Step too small, aborting."
TooSmall(d) == d < min_dt

\* if iter_i <= 5: dt *= 1.5
GrowDt_le(it, d) == IF it <= 5 THEN (d * 3) \div 2 ELSE d

\* if iter_i < 5: dt *= 1.5
GrowDt(it, d) == IF it < 5 THEN (d * 3) \div 2 ELSE d

\* if current_time + dt > end_time: dt = end_time - current_time + 1e-10
ClampDt(t, d) ==
    IF t + d > cfg.end_time THEN cfg.end_time - t + ClampEps ELSE d

\* ---------------------------------------------------------------- actions
\* solve, lines 154-164: the while test, the step-size clamp and the
\* initialisation of a step attempt.
StepBegin ==
    /\ UNCHANGED lib_vars
    /\ pc = "step"
    /\ attempts < MaxAttempts
    /\ attempts' = attempts + 1
    /\ IF current_time < cfg.end_time
       THEN /\ dt' = ClampDt(current_time, dt)
            /\ converged' = FALSE
            /\ du_accum' = Zero
            /\ IF cfg.max_iter > 0
               THEN iter_i' = 0 /\ pc' = "iter"
               ELSE iter_i' = iter_i /\ pc' = "control"
            /\ ret' = ret
       ELSE /\ pc' = "returned"
            /\ ret' = u_current
            /\ UNCHANGED <<dt, converged, du_accum, iter_i>>
    /\ UNCHANGED <<cfg, current_time, u_current, asm, calls, res_norm, du, ls,
                   gp_states_committed, gp_states_current, interrupt, signal,
                   written_at>>

\* solve, lines 165-238: the interrupt poll at the top of a Newton iteration,
\* the main assembly at u_current + du_accum, the residual and the
\* convergence test.
NewtonIteration(outs, r) ==
    /\ UNCHANGED lib_vars
    /\ pc = "iter"
    /\ IF check_interrupt
       THEN /\ pc' = "returned"
            /\ ret' = InterruptReturn(u_current, du_accum)
            /\ UNCHANGED <<asm, calls, gp_states_current, res_norm,
                           converged, written_at>>
       ELSE \E a \in {assemble_generic(outs, gp_states_current,
                                        gp_states_committed)} :
                /\ asm' = [K |-> a.K, F_int |-> a.F_int, failed |-> a.failed]
                /\ calls' = a.calls
                /\ gp_states_current' = a.cur
                /\ written_at' = written_by(outs, written_at, "main",
                                            u_trial(u_current, du_accum))
                /\ ret' = ret
                /\ IF assembly_failed(a)
                   THEN /\ pc' = "control"
                        /\ UNCHANGED <<res_norm, converged>>
                   ELSE /\ res_norm' = r
                        /\ IF r < cfg.tol
                           THEN converged' = TRUE /\ pc' = "control"
                           ELSE converged' = converged /\ pc' = "linsolve"
    /\ UNCHANGED <<cfg, current_time, dt, iter_i, u_current, du_accum, du, ls,
                   gp_states_committed, interrupt, signal, attempts>>

\* solve, lines 240-256: spsolve (an exception is caught and ends the
\* iteration loop), the divergence guard, and the entry of _line_search.
LinearSolve(raises, d) ==
    /\ UNCHANGED lib_vars
    /\ pc = "linsolve"
    /\ IF raises
       THEN pc' = "control" /\ UNCHANGED <<du, ls>>
       ELSE /\ du' = d
            /\ IF Diverged(d)
               THEN pc' = "control" /\ ls' = ls
               ELSE pc' = "ls" /\ ls' = [alpha |-> AlphaOne, ls_iter |-> 0,
                                         bound |-> FALSE, res_norm_new |-> 0]
    /\ UNCHANGED <<cfg, current_time, dt, iter_i, converged, u_current,
                   du_accum, asm, calls, res_norm, gp_states_committed,
                   gp_states_current, interrupt, ret, signal, attempts,
                   written_at>>

\* _line_search, lines 98-135, one pass of its loop, and when the pass is the
\* one that returns: the return, du_accum += alpha * du (line 259) and the
\* advance of the Newton loop.  Returning res_norm_new before any pass has
\* assigned it raises UnboundLocalError, which nothing in solve catches.
LineSearchIter(outs, rn) ==
    /\ UNCHANGED lib_vars
    /\ pc = "ls"
    /\ \E a \in {assemble_generic(outs, gp_states_current,
                                   gp_states_committed)} :
       LET accept == (~a.failed) /\ Armijo(rn, res_norm, ls.alpha)
           bound1 == ls.bound \/ ~a.failed
           rnn1 == IF a.failed THEN ls.res_norm_new ELSE rn
           alpha1 == IF accept THEN ls.alpha ELSE ls.alpha \div 2
           iter1 == ls.ls_iter + 1
           returns == accept \/ iter1 = max_ls_iter
       IN  /\ asm' = [K |-> a.K, F_int |-> a.F_int, failed |-> a.failed]
           /\ calls' = a.calls
           /\ gp_states_current' = a.cur
           /\ written_at' = written_by(outs, written_at, "line_search",
                            ls_u_trial(VecAdd(u_current, du_accum),
                                       ls.alpha, du))
           /\ IF ~returns
              THEN /\ ls' = [alpha |-> alpha1, ls_iter |-> iter1,
                             bound |-> bound1, res_norm_new |-> rnn1]
                   /\ pc' = "ls"
                   /\ UNCHANGED <<du_accum, iter_i, res_norm, du>>
              ELSE IF ~bound1
              THEN /\ pc' = "raised"
                   /\ ls' = LsIdle
                   /\ UNCHANGED <<du_accum, iter_i, res_norm, du>>
              ELSE /\ du_accum' = VecAdd(du_accum, VecScale(alpha1, du))
                   /\ ls' = LsIdle
                   /\ res_norm' = 0
                   /\ du' = Zero
                   /\ IF LoopContinues(iter_i)
                      THEN iter_i' = iter_i + 1 /\ pc' = "iter"
                      ELSE iter_i' = iter_i /\ pc' = "control"
    /\ UNCHANGED <<cfg, current_time, dt, converged, u_current,
                   gp_states_committed, interrupt, ret, signal, attempts>>

\* solve, lines 268-293: step control after the Newton loop.
StepControl ==
    /\ UNCHANGED lib_vars
    /\ pc = "control"
    /\ IF converged
       THEN LET t1 == current_time + dt
            IN  /\ u_current' = VecAdd(u_current, du_accum)
                /\ current_time' = t1
                /\ gp_states_committed' =
                     [e \in Elems |-> commit_state(gp_states_current[e],
                                                   gp_states_committed[e])]
                /\ dt' = IF t1 + GrowDt(iter_i, dt) > cfg.end_time
                         THEN cfg.end_time - t1 + ClampEps
                         ELSE GrowDt(iter_i, dt)
                /\ IF Abs(t1 - cfg.end_time) < Micro
                   THEN pc' = "returned" /\ ret' = u_current'
                   ELSE pc' = "step" /\ ret' = ret
       ELSE /\ dt' = CutBack(dt)
            /\ IF TooSmall(dt')
               THEN pc' = "returned" /\ ret' = u_current
               ELSE pc' = "step" /\ ret' = ret
            /\ UNCHANGED <<u_current, current_time, gp_states_committed>>
    /\ written_at' = [e \in Elems |-> [g \in GP |-> NotWritten]]
    /\ UNCHANGED <<cfg, iter_i, converged, du_accum, asm, calls, res_norm, du,
                   ls, gp_states_current, interrupt, signal, attempts>>

\* SolverWorker.run, lines 262-328: after solve returned, an interrupted job
\* ends silently, any other job is post-processed and reported as finished.
WorkerAfterSolve ==
    /\ UNCHANGED lib_vars
    /\ pc = "returned"
    /\ pc' = "end"
    /\ signal' = IF interrupt THEN "none" ELSE "finished"
    /\ UNCHANGED <<cfg, current_time, dt, iter_i, converged, u_current,
                   du_accum, asm, calls, res_norm, du, ls,
                   gp_states_committed, gp_states_current, interrupt, ret,
                   attempts, written_at>>

\* SolverWorker.run, lines 330-336: an exception that escaped solve.
WorkerExcept ==
    /\ UNCHANGED lib_vars
    /\ pc = "raised"
    /\ pc' = "end"
    /\ signal' = IF interrupt THEN "none" ELSE "error"
    /\ UNCHANGED <<cfg, current_time, dt, iter_i, converged, u_current,
                   du_accum, asm, calls, res_norm, du, ls,
                   gp_states_committed, gp_states_current, interrupt, ret,
                   attempts, written_at>>

\* QThread.requestInterruption, called from the GUI thread at any time
\* while the worker runs (Kill Job).
RequestInterruption ==
    /\ UNCHANGED lib_vars
    /\ pc # "end"
    /\ ~interrupt
    /\ interrupt' = TRUE
    /\ UNCHANGED <<cfg, pc, current_time, dt, iter_i, converged, u_current,
                   du_accum, asm, calls, res_norm, du, ls,
                   gp_states_committed, gp_states_current, ret, signal,
                   attempts, written_at>>

Next ==
    \/ StepBegin
    \/ \E outs \in Outs(u_trial(u_current, du_accum)), r \in ResVals :
          NewtonIteration(outs, r)
    \/ \E raises \in BOOLEAN, d \in DuChoices : LinearSolve(raises, d)
    \/ \E outs \in Outs(ls_u_trial(VecAdd(u_current, du_accum),
                                          ls.alpha, du)), rn \in LsResVals :
          LineSearchIter(outs, rn)
    \/ StepControl
    \/ WorkerAfterSolve
    \/ WorkerExcept
    \/ RequestInterruption

Spec == Init /\ [][Next]_vars

TypeOK ==
    /\ pc \in {"step", "iter", "linsolve", "ls", "control", "returned",
               "raised", "end"}
    /\ iter_i \in 0..5
    /\ pc = "control" => dt % 2 = 0

\* ------------------------------------------------------- event predicates
\* A step of the solver in which the main assembly of a Newton iteration
\* was performed (the poll did not trip).
MainAssemblyStep == pc = "iter" /\ pc' \in {"control", "linsolve"}

\* A step of the solver in which a line-search assembly was performed.
LsAssemblyStep == pc = "ls" /\ (pc' # "ls" \/ ls' # ls)

\* A step in which the step control after the Newton loop ran.
ControlStep == pc = "control" /\ pc' # "control"

AllCommittedFromTrial ==
    \A e \in Elems, g \in GP :
        /\ gp_states_current[e][g].kind = "PlasticState"
        /\ gp_states_committed'[e][g] = gp_states_current[e][g]

\* C1: in NonlinearSolver.solve the integration-point states are committed
\* exactly when the Newton iteration of a step has converged: the step control
\* of a converged step copies the trial state of all 8 points of every element
\* into the committed generation, and no other step of the solver (a failed
\* step, a cancelled step, an assembly) changes a committed state.
C1_CommitIffConverged ==
    [][ /\ (ControlStep /\ converged) => AllCommittedFromTrial
        /\ (gp_states_committed' # gp_states_committed)
              => (ControlStep /\ converged) ]_vars

\* C1 witness: a step converged and committed every point, a later step
\* failed after writing other trial states, and solve has returned.
C1_Witness ==
    /\ pc = "returned"
    /\ current_time > 0
    /\ ~converged
    /\ \A e \in Elems, g \in GP : gp_states_committed[e][g].kind = "PlasticState"
    /\ \E e \in Elems, g \in GP :
          gp_states_current[e][g] # gp_states_committed[e][g]

\* C2: after any failed step of NonlinearSolver.solve the step size is
\* halved while the committed displacement, the committed time and the
\* committed states stay as they are; if the halved step size is below 1e-6
\* solve returns the committed displacement, otherwise the step is retried
\* from the committed time with an empty accumulated increment.
C2_CutbackHalvesAndRetries ==
    [][ /\ (ControlStep /\ ~converged) =>
              /\ 2 * dt' = dt
              /\ u_current' = u_current
              /\ current_time' = current_time
              /\ gp_states_committed' = gp_states_committed
              /\ IF dt' < min_dt
                 THEN pc' = "returned" /\ ret' = u_current
                 ELSE pc' = "step"
        /\ (pc = "step" /\ pc' = "iter") =>
              /\ du_accum' = Zero
              /\ u_current' = u_current
              /\ current_time' = current_time ]_vars

\* C2 witness: a step size of exactly 1e-6 was retried, failed again, and
\* solve returned the committed displacement with dt below the threshold.
C2_Witness ==
    /\ pc = "returned"
    /\ ~converged
    /\ 2 * dt = min_dt
    /\ attempts >= 2
    /\ ret = u_current

\* C3: when solve stops because the step size fell below the minimum
\* threshold, the caller is told of a failure: the job does not end like a
\* job that reached total_time.
C3_AbortSurfacedAsFailure ==
    (pc = "end" /\ ~converged /\ dt < min_dt /\ ~interrupt)
        => signal = "error"

\* C4: when the interrupt predicate is true at the poll, solve returns at
\* once the committed displacement; the accumulated increment is not added,
\* no state is committed, the committed time does not advance, no element
\* loop is run, and the worker reports no failure.
C4_InterruptReturnsCommitted ==
    [][ /\ (pc = "iter" /\ interrupt /\ pc' # "iter") =>
              /\ pc' = "returned"
              /\ ret' = u_current
              /\ UNCHANGED <<u_current, current_time, gp_states_committed,
                             gp_states_current, du_accum, dt>>
        /\ (pc = "returned" /\ interrupt /\ pc' # "returned") =>
              (pc' = "end" /\ signal' = "none") ]_vars

\* C4 witness: the poll tripped in a step after a committed one, with a
\* non-empty accumulated increment that is not part of the returned value.
C4_Witness ==
    /\ pc = "returned"
    /\ interrupt
    /\ ~converged
    /\ dt >= min_dt
    /\ current_time > 0
    /\ du_accum # Zero
    /\ ret = u_current

\* C5 as stated: the predicate is polled before every element loop, those of
\* the line search included, so that no element loop is started once the
\* predicate is true.
C5_NoElementLoopOnceInterrupted ==
    [][ (MainAssemblyStep \/ LsAssemblyStep) => ~interrupt ]_vars

\* C5 amended: the predicate is polled at the top of every Newton iteration,
\* immediately before the main assembly: a main assembly is never started
\* with the predicate true, and a true predicate at the poll makes solve
\* return without running an element loop.
C5_PollBeforeMainAssembly ==
    [][ /\ MainAssemblyStep => ~interrupt
        /\ (pc = "iter" /\ interrupt /\ pc' # "iter") =>
              /\ pc' = "returned"
              /\ UNCHANGED <<asm, calls, gp_states_current>> ]_vars

\* C5 witness: the predicate became true during the first Newton iteration
\* and solve returned at the poll of the second one.
C5_Witness ==
    /\ pc = "returned"
    /\ interrupt
    /\ ~converged
    /\ dt >= min_dt
    /\ iter_i = 1
    /\ asm.K = "csr"

\* C6 as stated: an element failure in any assembly of solve, those of the
\* line search included, ends the Newton loop of the step without
\* convergence (the step control then cuts back).
C6_AnyFailureEndsStep ==
    [][ ((MainAssemblyStep \/ LsAssemblyStep) /\ asm'.failed)
            => (pc' = "control" /\ ~converged') ]_vars

\* C6 amended: an element failure in the main assembly of a Newton iteration
\* aborts the assembly and ends the step without convergence, and the step
\* control halves the step size; an element failure in a line-search
\* assembly aborts that assembly and, in any pass but the fifth, the line
\* search goes on with the damping factor halved and nothing added to the
\* accumulated increment: it does not by itself end the step.
C6_MainFailureEndsStep ==
    [][ /\ (MainAssemblyStep /\ asm'.failed) =>
              /\ asm'.K = "None"
              /\ pc' = "control"
              /\ ~converged'
        /\ (ControlStep /\ asm.failed /\ ~converged) => 2 * dt' = dt
        /\ (LsAssemblyStep /\ asm'.failed) =>
              /\ asm'.K = "None"
              /\ pc' # "ls" => ls.ls_iter + 1 = max_ls_iter
              /\ pc' = "ls" =>
                    /\ 2 * ls'.alpha = ls.alpha
                    /\ du_accum' = du_accum ]_vars

\* C6 witness: a main assembly failed at a displacement reached through a
\* line search, and the step was cut back.
C6_Witness ==
    /\ pc = "step"
    /\ asm.failed
    /\ ~converged
    /\ du_accum # Zero
    /\ dt < cfg.initial_dt

\* C7: no exception escapes solve because of a local numerical issue.
C7_NoExceptionEscapes == pc # "raised"

\* C8: a step attempt performs at most max_iter Newton iterations; when the
\* last of them ends without convergence the step control cuts back: nothing
\* is committed, nothing is raised, and the step is retried with the halved
\* step size unless that is below the threshold.
C8_IterationsBoundedThenCutback ==
    /\ [](pc \in {"iter", "linsolve", "ls"} => iter_i < cfg.max_iter)
    /\ [][ /\ (pc = "ls" /\ pc' = "control") =>
                 /\ iter_i + 1 = cfg.max_iter
                 /\ ~converged'
           /\ (ControlStep /\ ~converged) =>
                 /\ pc' \in {"step", "returned"}
                 /\ 2 * dt' = dt
                 /\ pc' = "returned" => dt' < min_dt
                 /\ UNCHANGED <<gp_states_committed, u_current,
                                current_time>> ]_vars

\* C8 witness: two Newton iterations with full steps were accumulated, none
\* converged, and the step was cut back for a retry.
C8_Witness ==
    /\ pc = "step"
    /\ ~converged
    /\ iter_i + 1 = cfg.max_iter
    /\ du_accum[1] = 2 * AlphaOne
    /\ du = Zero
    /\ current_time = 0
    /\ dt < cfg.initial_dt

\* C9: an increment with a component of magnitude above 1e6 ends the Newton
\* loop before it is added to the accumulated increment, the step fails, and
\* every increment that is accumulated or committed has no such component.
C9_DivergentIncrementDiscarded ==
    [][ /\ (pc = "linsolve" /\ pc' # "linsolve"
              /\ \E i \in Dofs :
                    du'[i] > MaxDuLimit \/ du'[i] < 0 - MaxDuLimit) =>
              /\ pc' = "control"
              /\ ~converged'
              /\ du_accum' = du_accum
        /\ (du_accum' # du_accum /\ du_accum' # Zero) =>
              /\ \A i \in Dofs :
                    du[i] <= MaxDuLimit /\ du[i] >= 0 - MaxDuLimit
              /\ \E a \in 1..AlphaOne :
                    du_accum' = VecAdd(du_accum, VecScale(a, du))
        /\ (u_current' # u_current) =>
              u_current' = VecAdd(u_current, du_accum) ]_vars

\* C9 witness: spsolve returned a divergent increment in a step after a
\* committed one, the step failed and nothing of the increment is in the
\* displacement solve returned.
C9_Witness ==
    /\ pc = "returned"
    /\ ~converged
    /\ ~interrupt
    /\ ret = u_current
    /\ \E i \in Dofs : du[i] < 0 - MaxDuLimit
    /\ u_current # Zero
    /\ u_current[num_dofs] = 0

\* C10: assemble_generic stops at the first element whose routine reports
\* failure: no routine invocation follows a failed one, and the result of
\* such a pass is (None, None, True); a matrix is returned only when the
\* routine was invoked for every element and none failed.
C10_AssemblyStopsAtFirstFailure ==
    /\ \A i \in DOMAIN calls : calls[i].failed => i = Len(calls)
    /\ asm.failed <=> (\E i \in DOMAIN calls : calls[i].failed)
    /\ asm.failed => (asm.K = "None" /\ asm.F_int = "None")
    /\ asm.K = "csr" =>
          /\ Len(calls) = NumElems
          /\ \A i \in DOMAIN calls : calls[i].elem = i /\ ~calls[i].failed

\* C10 witness: the first element failed and the routine was not invoked
\* for any element after it.
C10_Witness ==
    /\ asm.failed
    /\ asm.K = "None"
    /\ asm.F_int = "None"
    /\ Len(calls) = 1
    /\ calls[1].failed

\* ======================================================================
\* GlobalAssembler.assemble_generic with the values it assembles
\* ======================================================================
NodesPerElem == 8                   \* a C3D8 element has 8 nodes
DofsPerNode == 3                    \* u, v, w
ElemDofs == NodesPerElem * DofsPerNode
entries_per_elem == ElemDofs * ElemDofs
total_dof == NumNodes * DofsPerNode \* self.total_dof = num_nodes * 3
DofIdx == 0..(total_dof - 1)        \* 0-based global DOF indices

RECURSIVE SumOver(_, _)
SumOver(f, S) ==
    IF S = {} THEN 0
    ELSE LET x == CHOOSE y \in S : TRUE
         IN  f[x] + SumOver(f, S \ {x})

\* node ids of element e of a strip of hexahedra, consecutive elements
\* sharing the four nodes of a face
HexNodes(e) ==
    [k \in 1..NodesPerElem |-> ((4 * (e - 1) + k - 1) % NumNodes) + 1]

\* the same element collapsed to a wedge: local nodes 4 and 8 repeat local
\* nodes 3 and 7 (its integration points keep a positive Jacobian)
WedgeNodes(e) ==
    [k \in 1..NodesPerElem |->
        IF k = 4 THEN HexNodes(e)[3]
        ELSE IF k = 8 THEN HexNodes(e)[7] ELSE HexNodes(e)[k]]

ElemNodes(shape, e) == IF shape = "wedge" THEN WedgeNodes(e) ELSE HexNodes(e)

MeshChoices == [Elems -> {"hex", "wedge"}]
ValChoices == {1, 2, 3}

\* get_dof_indices: for each node in order, (id - 1) * 3 + 0, 1, 2
get_dof_indices(nodes) ==
    [i \in 1..ElemDofs |->
        (nodes[((i - 1) \div DofsPerNode) + 1] - 1) * DofsPerNode
            + ((i - 1) % DofsPerNode)]

\* what the element routine of element e returns in load case v
Ke(e, v) == [i \in 1..ElemDofs |-> [j \in 1..ElemDofs |-> v + e * i + j]]
Fe(e, v) == [i \in 1..ElemDofs |-> v * e + i]

\* r_grid.flatten(), c_grid.flatten() of meshgrid(dofs, dofs, indexing='ij')
\* and Ke.flatten(), at position q (0-based) of the element's block
rows_at(dofs, q) == dofs[(q \div ElemDofs) + 1]
cols_at(dofs, q) == dofs[(q % ElemDofs) + 1]
data_at(K_e, q) == K_e[(q \div ElemDofs) + 1][(q % ElemDofs) + 1]

\* positions of one element's block whose (row, col) is (r, c)
BlockPositions(dofs, r, c) ==
    {(i - 1) * ElemDofs + (j - 1) :
        i \in {a \in 1..ElemDofs : dofs[a] = r},
        j \in {b \in 1..ElemDofs : dofs[b] = c}}

\* coo_matrix((data, (rows, cols))).tocsr(): entries with the same
\* (row, col) are summed
coo_sum(mesh, v, r, c) ==
    LET block(e) ==
            LET dofs == get_dof_indices(ElemNodes(mesh[e], e))
                K_e == Ke(e, v)
                P == BlockPositions(dofs, r, c)
            IN  SumOver([q \in P |-> data_at(K_e, q)], P)
    IN  SumOver([e \in Elems |-> block(e)], Elems)

\* F_int_global[dofs] += Fe: NumPy reads F[dofs], adds Fe and assigns the
\* sums back position by position; of the positions that name the same DOF
\* the last assignment stays
F_int_add(F, dofs, F_e) ==
    [d \in DofIdx |->
        LET I == {i \in 1..ElemDofs : dofs[i] = d}
        IN  IF I = {} THEN F[d]
            ELSE LET last == CHOOSE i \in I : \A k \in I : k <= i
                 IN  F[d] + F_e[last]]

RECURSIVE F_int_loop(_, _, _)
F_int_loop(mesh, v, e) ==
    IF e = 0 THEN [d \in DofIdx |-> 0]
    ELSE F_int_add(F_int_loop(mesh, v, e - 1),
                   get_dof_indices(ElemNodes(mesh[e], e)), Fe(e, v))

\* assemble_generic, lines 65-129, on a job [mesh, val, nonlinear, fails]
assemble_generic_values(job) ==
    IF \E e \in Elems : job.fails[e]
    THEN [K |-> "None", F_int |-> "None", failed |-> TRUE]
    ELSE [K |-> [r \in DofIdx |->
                    [c \in DofIdx |-> coo_sum(job.mesh, job.val, r, c)]],
          F_int |-> IF job.nonlinear
                    THEN F_int_loop(job.mesh, job.val, NumElems)
                    ELSE "None",
          failed |-> FALSE]

SolverNotRun ==
    /\ cfg = [end_time |-> 0, initial_dt |-> 0, max_iter |-> 0, tol |-> 0,
              form |-> "TL", badAt |-> [e \in Elems |-> 0]]
    /\ pc = "end"
    /\ current_time = 0 /\ dt = 0 /\ iter_i = 0 /\ converged = FALSE
    /\ u_current = Zero /\ du_accum = Zero /\ asm = NoAsm /\ calls = << >>
    /\ res_norm = 0 /\ du = Zero /\ ls = LsIdle
    /\ gp_states_committed = [e \in Elems |-> init_gp_states]
    /\ gp_states_current = [e \in Elems |-> init_gp_states]
    /\ interrupt = FALSE /\ ret = Zero /\ signal = "none" /\ attempts = 0
    /\ written_at = [e \in Elems |-> [g \in GP |-> NotWritten]]

InitAsm ==
    /\ SolverNotRun
    /\ bc_job = NoJob /\ mat_job = NoJob /\ elem_job = NoJob
    /\ asm_job \in [stage : {"input"}, mesh : MeshChoices, val : ValChoices,
                    nonlinear : BOOLEAN, fails : [Elems -> BOOLEAN]]

AssembleValues ==
    /\ asm_job.stage = "input"
    /\ asm_job' = [stage |-> "done", mesh |-> asm_job.mesh,
                   val |-> asm_job.val, nonlinear |-> asm_job.nonlinear,
                   fails |-> asm_job.fails,
                   out |-> assemble_generic_values(asm_job)]
    /\ UNCHANGED <<solver_vars, bc_job, mat_job, elem_job>>

NextAsm == AssembleValues

SpecAsm == InitAsm /\ [][NextAsm]_vars

\* C11: for elements whose routines all succeed, the assembled matrix has
\* at (row, col) the sum of all element entries Ke[i][j] whose global DOFs
\* are (row, col), and the internal-force vector has at each DOF the sum of
\* all element force entries mapped to that DOF.
C11_AssemblyBySuperposition ==
    (asm_job.stage = "done" /\ ~asm_job.out.failed) =>
        LET dofs(e) == get_dof_indices(ElemNodes(asm_job.mesh[e], e))
            Ksum(r, c) ==
                SumOver([e \in Elems |->
                    LET P == {ij \in (1..ElemDofs) \X (1..ElemDofs) :
                                 dofs(e)[ij[1]] = r /\ dofs(e)[ij[2]] = c}
                    IN  SumOver([ij \in P |->
                                   Ke(e, asm_job.val)[ij[1]][ij[2]]], P)],
                    Elems)
            Fsum(d) ==
                SumOver([e \in Elems |->
                    LET I == {i \in 1..ElemDofs : dofs(e)[i] = d}
                    IN  SumOver([i \in I |-> Fe(e, asm_job.val)[i]], I)],
                    Elems)
        IN  /\ \A r \in DofIdx, c \in DofIdx :
                  asm_job.out.K[r][c] = Ksum(r, c)
            /\ asm_job.nonlinear =>
                  \A d \in DofIdx : asm_job.out.F_int[d] = Fsum(d)

\* ======================================================================
\* BoundaryConditionHandler: the two penalty enforcement modes, and the
\* way NonlinearSolver hands its constraints to them
\* ======================================================================
BcNodes == 2                        \* nodes of the constrained model
MaxCons == 2                        \* longest constraint list explored

bc_size == BcNodes * DofsPerNode    \* K.shape[0]
BcIdx == 0..(bc_size - 1)

\* constraint lists: node ids 0 and BcNodes + 1 and the DOF index 3 are out
\* of range; a list may name the same DOF more than once (the worker expands
\* node sets one after the other, lines 167-180)
ConsNodeIds == {0, 1, BcNodes, BcNodes + 1}
ConsDofs == {0, 2, 3}
ConsValues == {0, 1}
ConsChoices ==
    UNION {[1..n -> [node_id : ConsNodeIds, dof : ConsDofs,
                     value : ConsValues]] : n \in 0..MaxCons}

\* matrices and vectors handed in: the first has its largest diagonal
\* magnitude on a negative entry
BcMatrixChoices ==
    {[r \in BcIdx |-> [c \in BcIdx |->
        IF r = c THEN (IF r = 0 THEN 0 - 3 ELSE 2) ELSE r - c]],
     [r \in BcIdx |-> [c \in BcIdx |-> IF r = c THEN r + 1 ELSE 1]]}
BcVector == [r \in BcIdx |-> r + 5]
BcMultiplier == 1000                \* penalty_multiplier of the call

\* row_idx = (node_id - 1) * 3 + dof
row_idx(cons) == (cons.node_id - 1) * DofsPerNode + cons.dof

\* the entry NumPy and SciPy address with index r: a negative index counts
\* from the end
IndexOf(r) == IF r < 0 THEN r + bc_size ELSE r

\* max_diag = np.max(np.abs(K.diagonal())) without the absolute value
max_diag_no_abs(K) ==
    CHOOSE m \in {K[i][i] : i \in BcIdx} : \A i \in BcIdx : K[i][i] <= m

\* max_diag = np.max(np.abs(K.diagonal()))
max_diag(K) ==
    CHOOSE m \in {Abs(K[i][i]) : i \in BcIdx} :
        \A i \in BcIdx : Abs(K[i][i]) <= m

\* alpha = max_diag * penalty_multiplier
penalty_alpha(K, mult) == max_diag(K) * mult

AddDiag(K, r, a) ==
    [K EXCEPT ![IndexOf(r)] = [@ EXCEPT ![IndexOf(r)] = @ + a]]

\* apply_penalty_method, lines 57-77: the loop over the constraints from
\* position k on; acc = [raised, K, F]
RECURSIVE penalty_method_loop(_, _, _, _)
penalty_method_loop(acc, constraints, k, alpha) ==
    IF k > Len(constraints) THEN acc
    ELSE LET r == row_idx(constraints[k])
         IN  IF r >= bc_size
             THEN [acc EXCEPT !.raised = "ValueError"]
             ELSE IF r < 0 - bc_size
             THEN [acc EXCEPT !.raised = "IndexError"]
             ELSE penalty_method_loop(
                     [raised |-> "none",
                      K |-> AddDiag(acc.K, r, alpha),
                      F |-> [acc.F EXCEPT ![IndexOf(r)] =
                                @ + alpha * constraints[k].value]],
                     constraints, k + 1, alpha)

\* apply_penalty_method: the copies K_mod, F_mod are modified and returned
\* (when the loop raises nothing is returned: K, F then hold the arguments);
\* K_arg, F_arg are the caller's K and F after the call
apply_penalty_method(K, F, constraints, mult) ==
    LET res == penalty_method_loop([raised |-> "none", K |-> K, F |-> F],
                                   constraints, 1, penalty_alpha(K, mult))
    IN  [raised |-> res.raised,
         K |-> IF res.raised = "none" THEN res.K ELSE K,
         F |-> IF res.raised = "none" THEN res.F ELSE F,
         K_arg |-> K, F_arg |-> F]

\* apply_penalty_for_residual, lines 118-129
RECURSIVE penalty_residual_loop(_, _, _, _)
penalty_residual_loop(acc, constraints, k, alpha) ==
    IF k > Len(constraints) THEN acc
    ELSE LET r == row_idx(constraints[k])
         IN  IF r >= bc_size
             THEN penalty_residual_loop(acc, constraints, k + 1, alpha)
             ELSE IF r < 0 - bc_size
             THEN [acc EXCEPT !.raised = "IndexError"]
             ELSE penalty_residual_loop(
                     [raised |-> "none",
                      K |-> AddDiag(acc.K, r, alpha),
                      F |-> [acc.F EXCEPT ![IndexOf(r)] = 0]],
                     constraints, k + 1, alpha)

\* the residual mode doing what apply_penalty_method does
residual_like_method(K, R, constraints, mult) ==
    apply_penalty_method(K, R, constraints, mult)

apply_penalty_for_residual(K, R, constraints, mult) ==
    LET res == penalty_residual_loop([raised |-> "none", K |-> K, F |-> R],
                                     constraints, 1, penalty_alpha(K, mult))
    IN  [raised |-> res.raised,
         K |-> IF res.raised = "none" THEN res.K ELSE K,
         F |-> IF res.raised = "none" THEN res.F ELSE R,
         K_arg |-> K, F_arg |-> R]

\* validate_constraints, lines 166-177: the range test of one constraint
ConstraintInRange(cons, num_nodes) ==
    /\ ~(cons.node_id < 1 \/ cons.node_id > num_nodes)
    /\ ~(cons.dof < 0 \/ cons.dof > 2)

NoBcOut == [raised |-> "none"]

InitBC ==
    /\ SolverNotRun
    /\ asm_job = NoJob /\ mat_job = NoJob /\ elem_job = NoJob
    /\ bc_job \in [stage : {"input"},
                   mode : {"method", "residual", "solver"},
                   K : BcMatrixChoices, F : {BcVector},
                   constraints : ConsChoices, out : {NoBcOut}]

\* LinearSolver.apply_boundary_conditions -> apply_penalty_method
PenaltyMethod ==
    /\ bc_job.stage = "input" /\ bc_job.mode = "method"
    /\ bc_job' = [bc_job EXCEPT
                    !.stage = "done",
                    !.out = apply_penalty_method(bc_job.K, bc_job.F,
                                bc_job.constraints, BcMultiplier)]
    /\ UNCHANGED <<solver_vars, asm_job, mat_job, elem_job>>

\* apply_penalty_for_residual called on its own
PenaltyForResidual ==
    /\ bc_job.stage = "input" /\ bc_job.mode = "residual"
    /\ bc_job' = [bc_job EXCEPT
                    !.stage = "done",
                    !.out = apply_penalty_for_residual(bc_job.K, bc_job.F,
                                bc_job.constraints, BcMultiplier)]
    /\ UNCHANGED <<solver_vars, asm_job, mat_job, elem_job>>

\* NonlinearSolver.__init__, lines 26-31: the constraint list is stored as
\* it is handed in
SolverConstruct ==
    /\ bc_job.stage = "input" /\ bc_job.mode = "solver"
    /\ bc_job' = [bc_job EXCEPT !.stage = "constructed"]
    /\ UNCHANGED <<solver_vars, asm_job, mat_job, elem_job>>

\* solve, lines 182-192: the main assembly of the first iteration of the
\* first step and its residual
SolverFirstAssembly ==
    /\ bc_job.stage = "constructed"
    /\ bc_job' = [bc_job EXCEPT !.stage = "assembled"]
    /\ UNCHANGED <<solver_vars, asm_job, mat_job, elem_job>>

\* solve, lines 201-207
SolverPenalty ==
    /\ bc_job.stage = "assembled"
    /\ bc_job' = [bc_job EXCEPT
                    !.stage = "done",
                    !.out = apply_penalty_for_residual(bc_job.K, bc_job.F,
                                bc_job.constraints, BcMultiplier)]
    /\ UNCHANGED <<solver_vars, asm_job, mat_job, elem_job>>

NextBC ==
    \/ PenaltyMethod
    \/ PenaltyForResidual
    \/ SolverConstruct
    \/ SolverFirstAssembly
    \/ SolverPenalty

SpecBC == InitBC /\ [][NextBC]_vars

\* the penalty factor of a job, from the diagonal of the matrix handed in
JobAlpha ==
    LET i == CHOOSE a \in BcIdx :
                \A b \in BcIdx : Abs(bc_job.K[b][b]) <= Abs(bc_job.K[a][a])
    IN  Abs(bc_job.K[i][i]) * BcMultiplier

\* positions of the job's constraint list that address entry r
Addressing(r) ==
    {k \in DOMAIN bc_job.constraints :
        /\ row_idx(bc_job.constraints[k]) < bc_size
        /\ IndexOf(row_idx(bc_job.constraints[k])) = r}

AllInRange ==
    \A k \in DOMAIN bc_job.constraints :
        ConstraintInRange(bc_job.constraints[k], BcNodes)

C14_OutOfRangeRaises ==
    (bc_job.stage = "done" /\ bc_job.mode \in {"method", "residual"}
        /\ ~AllInRange) => bc_job.out.raised # "none"

\* C15: a constraint list with an out-of-range constraint handed to the
\* nonlinear solver is rejected before the first assembly of the first step.
C15_RejectedBeforeFirstAssembly ==
    (bc_job.stage # "none" /\ bc_job.mode = "solver" /\ ~AllInRange)
        => bc_job.stage \notin {"assembled", "done"}

\* ------------------------------------------- committed plastic strain
\* C16: at every integration point of every element the committed
\* equivalent plastic strain never decreases, whatever the step of the
\* solver is: main-loop evaluations, line-search evaluations, failed and
\* cut-back steps, commits, interruption.
C16_CommittedPlasticStrainMonotone ==
    [][\A e \in Elems : \A g \in GP :
          gp_states_committed'[e][g].ep >= gp_states_committed[e][g].ep]_vars

\* A run that committed a step with plastic flow at a point, then had a
\* step cut back, and still holds the committed strain.
C16_Witness ==
    /\ pc = "returned"
    /\ attempts >= 2
    /\ current_time > 0
    /\ dt < cfg.initial_dt
    /\ \E e \in Elems : \E g \in GP :
          /\ gp_states_committed[e][g].kind = "PlasticState"
          /\ gp_states_committed[e][g].ep >= 1

\* ================================================== constitutive model
\* The material routines compute with real numbers.  They are modelled with
\* exact rationals <<numerator, denominator>> in lowest terms, denominator
\* positive, so that equalities between results are decided exactly.
\* A local variable of a routine is a bound variable here: Only({e : x \in {v}})
\* is e with x holding the value of v, computed once.
Only(S) == CHOOSE x \in S : TRUE

RECURSIVE GCD(_, _)
GCD(a, b) == IF b = 0 THEN a ELSE GCD(b, a % b)

Q(n, d) ==
    Only({<<(IF d < 0 THEN -1 ELSE 1) * (n \div g),
            (IF d < 0 THEN -1 ELSE 1) * (d \div g)>> :
            g \in {GCD(Abs(n), Abs(d))}})

QInt(n) == <<n, 1>>
QAdd(x, y) ==
    Only({Q(a[1] * b[2] + b[1] * a[2], a[2] * b[2]) : a \in {x}, b \in {y}})
QSub(x, y) ==
    Only({Q(a[1] * b[2] - b[1] * a[2], a[2] * b[2]) : a \in {x}, b \in {y}})
QMul(x, y) == Only({Q(a[1] * b[1], a[2] * b[2]) : a \in {x}, b \in {y}})
QDiv(x, y) == Only({Q(a[1] * b[2], a[2] * b[1]) : a \in {x}, b \in {y}})
QLe(x, y) == \E a \in {x} : \E b \in {y} : a[1] * b[2] <= b[1] * a[2]
QLt(x, y) == \E a \in {x} : \E b \in {y} : a[1] * b[2] < b[1] * a[2]

\* np.sqrt on the rationals that have a rational root
IsSquare(n) == \E r \in 0..n : r * r = n
ISqrt(n) == CHOOSE r \in 0..n : r * r = n
HasSqrt(x) == \E a \in {x} : a[1] >= 0 /\ IsSquare(a[1]) /\ IsSquare(a[2])
QSqrt(x) == Only({<<ISqrt(a[1]), ISqrt(a[2])>> : a \in {x}})

Voigt == 1..6
Normal == 1..3
QVec(v) == [i \in Voigt |-> QInt(v[i])]

\* J2PlasticMaterial.__init__ / IsotropicElastic.__init__: the parameters of
\* one material.  E = 5 and nu = 1/4 give mu = 2 and the matrix entries
\* c1 = 6, c2 = 2, c3 = 2; yield_stress > 0 and H >= 0 as the hardening
\* laws require.
YieldChoices == {1, 2, 4}
HardeningChoices == {0, 2}
MatChoices ==
    [E : {QInt(5)}, nu : {Q(1, 4)},
     yield_stress : {QInt(y) : y \in YieldChoices},
     H : {QInt(h) : h \in HardeningChoices}]

\* IsotropicElastic.mu: E / (2 (1 + nu))
elastic_mu(mat) == QDiv(mat.E, QMul(QInt(2), QAdd(QInt(1), mat.nu)))

\* IsotropicElastic._build_D_matrix
build_D_matrix(mat) ==
    Only({Only({[i \in Voigt |-> [j \in Voigt |->
                    IF i \in Normal /\ j \in Normal
                    THEN (IF i = j THEN c1 ELSE c2)
                    ELSE IF i = j THEN c3 ELSE QInt(0)]] :
                c1 \in {QMul(QSub(QInt(1), mat.nu), factor)},
                c2 \in {QMul(mat.nu, factor)},
                c3 \in {QMul(QDiv(QSub(QInt(1), QMul(QInt(2), mat.nu)),
                                  QInt(2)), factor)}}) :
          factor \in {QDiv(mat.E, QMul(QAdd(QInt(1), mat.nu),
                                       QSub(QInt(1), QMul(QInt(2), mat.nu))))}})

\* D @ v for a 6x6 matrix and a 6-vector
RECURSIVE DotRow(_, _, _)
DotRow(row, v, k) ==
    IF k = 0 THEN QInt(0) ELSE QAdd(DotRow(row, v, k - 1), QMul(row[k], v[k]))

\* IsotropicElastic.compute_stress, stress part: D @ strain_voigt
elastic_compute_stress(mat, strain_voigt) ==
    Only({[i \in Voigt |-> DotRow(D[i], e, 6)] :
            D \in {build_D_matrix(mat)}, e \in {strain_voigt}})

\* VonMises._deviatoric: the mean stress is taken off the normal components
deviatoric(stress) ==
    Only({[i \in Voigt |-> IF i \in Normal THEN QSub(stress[i], p)
                           ELSE stress[i]] :
            p \in {QDiv(QAdd(QAdd(stress[1], stress[2]), stress[3]), QInt(3))}})

\* The radicand of VonMises._equivalent_stress:
\* 1.5 (s0^2 + s1^2 + s2^2 + 2 (s3^2 + s4^2 + s5^2))
equivalent_stress_sq(stress) ==
    Only({QMul(Q(3, 2),
               QAdd(QAdd(QAdd(QMul(s[1], s[1]), QMul(s[2], s[2])),
                         QMul(s[3], s[3])),
                    QMul(QInt(2),
                         QAdd(QAdd(QMul(s[4], s[4]), QMul(s[5], s[5])),
                              QMul(s[6], s[6]))))) :
            s \in {deviatoric(stress)}})

\* VonMises._equivalent_stress
equivalent_stress(stress) == QSqrt(equivalent_stress_sq(stress))

\* VonMises.evaluate
VonMises_evaluate(stress, yield_stress) ==
    QSub(equivalent_stress(stress), yield_stress)

\* VonMises.gradient: 1.5 s / sigma_eq on the normal components,
\* 3.0 s / sigma_eq on the shear components, zero for sigma_eq < 1e-10
\* (every non-zero sigma_eq of the model is far above that threshold).
VonMises_gradient(stress) ==
    Only({IF sigma_eq[1] = 0 THEN [i \in Voigt |-> QInt(0)]
          ELSE [i \in Voigt |->
                  IF i \in Normal THEN QDiv(QMul(Q(3, 2), s[i]), sigma_eq)
                  ELSE QDiv(QMul(QInt(3), s[i]), sigma_eq)] :
            s \in {deviatoric(stress)},
            sigma_eq \in {equivalent_stress(stress)}})

\* PerfectPlasticity / LinearIsotropicHardening.get_yield_stress
get_yield_stress(mat, ep) == QAdd(mat.yield_stress, QMul(mat.H, ep))

\* PerfectPlasticity / LinearIsotropicHardening.get_hardening_modulus
get_hardening_modulus(mat, ep) == mat.H

\* np.triu(np.outer(n, n)): the upper triangle only
n_outer_triu(n) ==
    [i \in Voigt |-> [j \in Voigt |->
        IF i <= j THEN QMul(n[i], n[j]) ELSE QInt(0)]]

\* np.outer(n, n)
n_outer(n) == [i \in Voigt |-> [j \in Voigt |-> QMul(n[i], n[j])]]

\* I_dev with the shear diagonal set to 0.5
I_dev_mod ==
    [i \in Voigt |-> [j \in Voigt |->
        IF i \in Normal /\ j \in Normal
        THEN (IF i = j THEN Q(2, 3) ELSE Q(-1, 3))
        ELSE IF i = j THEN Q(1, 2) ELSE QInt(0)]]

\* RadialReturn._compute_consistent_tangent:
\* D - c1 I_dev_mod - (c2 - 2/3 c1) n (x) n, or D for a vanishing sigma_eq.
compute_consistent_tangent(mat, n, d_gamma, stress_trial, ep) ==
    Only({IF sigma_eq_trial[1] = 0 THEN D
          ELSE Only({Only({[i \in Voigt |-> [j \in Voigt |->
                              QSub(QSub(D[i][j], QMul(c1, I[i][j])),
                                   QMul(beta_n, outer[i][j]))]] :
                            beta_n \in {QSub(c2, QMul(c1, Q(2, 3)))},
                            outer \in {n_outer(n)},
                            I \in {I_dev_mod}}) :
                      c1 \in {QDiv(QMul(QMul(QMul(QInt(6), mu), mu), d_gamma),
                                   sigma_eq_trial)},
                      c2 \in {QDiv(QMul(QMul(QInt(4), mu), mu),
                                   QAdd(QMul(QInt(3), mu), H))}}) :
            D \in {build_D_matrix(mat)},
            mu \in {elastic_mu(mat)},
            H \in {get_hardening_modulus(mat, ep)},
            sigma_eq_trial \in {equivalent_stress(stress_trial)}})

\* The plastic correction of RadialReturn.apply for f_trial > 0
plastic_correction(mat, stress_trial, ep_old, f_trial) ==
    Only({Only({[stress |-> [i \in Voigt |->
                               QSub(stress_trial[i],
                                    QMul(QMul(QMul(QInt(2), mu), d_gamma),
                                         n[i]))],
                 tangent |-> compute_consistent_tangent(mat, n, d_gamma,
                                                        stress_trial, ep_old),
                 ep |-> QAdd(ep_old, d_gamma),
                 is_plastic |-> TRUE] :
                d_gamma \in {QDiv(f_trial, QAdd(QMul(QInt(3), mu), H))},
                n \in {VonMises_gradient(stress_trial)}}) :
            mu \in {elastic_mu(mat)},
            H \in {get_hardening_modulus(mat, ep_old)}})

\* RadialReturn.apply with an elastic branch that also takes f_trial = 0 out
apply_strict_elastic(mat, stress_trial, ep_old) ==
    Only({IF f_trial[1] < 0
          THEN [stress |-> stress_trial, tangent |-> build_D_matrix(mat),
                ep |-> ep_old, is_plastic |-> FALSE]
          ELSE plastic_correction(mat, stress_trial, ep_old, f_trial) :
            f_trial \in {VonMises_evaluate(stress_trial,
                                           get_yield_stress(mat, ep_old))}})

\* RadialReturn.apply: f_trial <= 0 returns copies of the trial stress and of
\* D, the old strain and False; otherwise d_gamma = f_trial / (3 mu + H),
\* stress = stress_trial - 2 mu d_gamma n, ep_new = ep_old + d_gamma.
RadialReturn_apply(mat, stress_trial, ep_old) ==
    Only({IF f_trial[1] <= 0
          THEN [stress |-> stress_trial, tangent |-> build_D_matrix(mat),
                ep |-> ep_old, is_plastic |-> FALSE]
          ELSE plastic_correction(mat, stress_trial, ep_old, f_trial) :
            f_trial \in {VonMises_evaluate(stress_trial,
                                           get_yield_stress(mat, ep_old))}})

\* ------------------------------------------------ J2PlasticMaterial
\* State objects live in a heap (a sequence of PlasticState records); a
\* reference is an index into it and 0 is None.
\* PlasticState(): the dataclass defaults
PlasticState_new ==
    [stress |-> QVec(<<0, 0, 0, 0, 0, 0>>),
     equivalent_plastic_strain |-> QInt(0),
     plastic_strain |-> QVec(<<0, 0, 0, 0, 0, 0>>),
     back_stress |-> QVec(<<0, 0, 0, 0, 0, 0>>)]

\* J2PlasticMaterial.create_state: a new object with the defaults
J2_create_state(heap) ==
    [heap |-> Append(heap, PlasticState_new), id |-> Len(heap) + 1]

\* A copy() that hands back the object itself
PlasticState_alias(heap, id) == [heap |-> heap, id |-> id]

\* PlasticState.copy: a new object with copies of the four fields
PlasticState_copy(heap, id) ==
    [heap |-> Append(heap, heap[id]), id |-> Len(heap) + 1]

Axes == 1..3
\* F.T @ F
CauchyGreen(F) ==
    [i \in Axes |-> [j \in Axes |->
        F[1][i] * F[1][j] + F[2][i] * F[2][j] + F[3][i] * F[3][j]]]

\* 0.5 * (C - np.eye(3))
GreenLagrange(F) ==
    Only({[i \in Axes |-> [j \in Axes |->
              Q(C[i][j] - (IF i = j THEN 1 ELSE 0), 2)]] :
            C \in {CauchyGreen(F)}})

\* tensor_to_voigt(T, engineering): [T11, T22, T33, f T23, f T13, f T12]
\* with f = 2.0 for the engineering form and 1.0 otherwise
tensor_to_voigt(T, engineering) ==
    Only({<<t[1][1], t[2][2], t[3][3],
            QMul(factor, t[2][3]), QMul(factor, t[1][3]),
            QMul(factor, t[1][2])>> :
            t \in {T}, factor \in {IF engineering THEN QInt(2) ELSE QInt(1)}})

\* voigt_to_tensor with the yz and xy entries of the vector exchanged
voigt_to_tensor_xy_first(v, engineering) ==
    Only({<< <<w[1], QMul(factor, w[4]), QMul(factor, w[5])>>,
             <<QMul(factor, w[4]), w[2], QMul(factor, w[6])>>,
             <<QMul(factor, w[5]), QMul(factor, w[6]), w[3]>> >> :
            w \in {v}, factor \in {IF engineering THEN Q(1, 2) ELSE QInt(1)}})

\* voigt_to_tensor(v, engineering): the symmetric tensor with
\* T12 = f v5, T13 = f v4, T23 = f v3 (0-based), f = 0.5 for the
\* engineering form and 1.0 otherwise
voigt_to_tensor(v, engineering) ==
    Only({<< <<w[1], QMul(factor, w[6]), QMul(factor, w[5])>>,
             <<QMul(factor, w[6]), w[2], QMul(factor, w[4])>>,
             <<QMul(factor, w[5]), QMul(factor, w[4]), w[3]>> >> :
            w \in {v}, factor \in {IF engineering THEN Q(1, 2) ELSE QInt(1)}})

\* The elastic trial stress of J2PlasticMaterial.compute_stress
trial_of(mat, F) ==
    elastic_compute_stress(mat, tensor_to_voigt(GreenLagrange(F), TRUE))

\* J2PlasticMaterial.compute_stress(F, state): a None state is replaced by a
\* fresh one, the return mapping runs on D : E with the state's equivalent
\* plastic strain, and the result state is a copy of the state whose stress
\* and equivalent plastic strain are overwritten.  Returns the result and the
\* heap after the call.
J2_compute_stress(mat, F, heap, state_id) ==
    Only({Only({[stress |-> r.stress,
                 tangent |-> r.tangent,
                 is_plastic |-> r.is_plastic,
                 state |-> new_state.id,
                 heap |-> [new_state.heap EXCEPT
                             ![new_state.id].stress = r.stress,
                             ![new_state.id].equivalent_plastic_strain = r.ep]] :
                r \in {Only({RadialReturn_apply(mat, stress_trial,
                               st.heap[st.id].equivalent_plastic_strain) :
                             stress_trial \in {trial_of(mat, F)}})},
                new_state \in {PlasticState_copy(st.heap, st.id)}}) :
            st \in {IF state_id = 0 THEN J2_create_state(heap)
                    ELSE [heap |-> heap, id |-> state_id]}})

\* ----------------------------------------- calls of the material routines
MaxStress == 3          \* largest normal component of a trial stress

\* Trial stresses handed to RadialReturn.apply: normal components in
\* 0..MaxStress, shear components 0 or 1, kept when the von Mises equivalent
\* stress is rational.
TrialChoices ==
    {QVec(v) : v \in {w \in [Voigt -> 0..MaxStress] :
                        /\ \A i \in Voigt \ Normal : w[i] <= 1
                        /\ HasSqrt(equivalent_stress_sq(QVec(w)))}}

\* Prior equivalent plastic strains
EpChoices == {QInt(0), Q(1, 2), QInt(1)}

\* Deformation gradients: identity, uniaxial stretch, simple shear,
\* stretch along z, kept when the equivalent trial stress is rational.
FChoices ==
    {<< <<1, 0, 0>>, <<0, 1, 0>>, <<0, 0, 1>> >>,
     << <<2, 0, 0>>, <<0, 1, 0>>, <<0, 0, 1>> >>,
     << <<1, 1, 0>>, <<0, 1, 0>>, <<0, 0, 1>> >>,
     << <<1, 0, 0>>, <<0, 1, 0>>, <<0, 0, 2>> >>}

\* Prior states of a compute_stress call: None, a fresh state, and a state
\* with history in every field; the heap holds the one state object.
StateChoices ==
    {[heap |-> << >>, id |-> 0],
     [heap |-> <<PlasticState_new>>, id |-> 1],
     [heap |-> <<[stress |-> QVec(<<2, 0, 0, 0, 0, 1>>),
                  equivalent_plastic_strain |-> Q(1, 2),
                  plastic_strain |-> QVec(<<1, 0, 0, 0, 0, 0>>),
                  back_stress |-> QVec(<<0, 1, 0, 0, 0, 0>>)]>>, id |-> 1]}

ApplyJobs ==
    [stage : {"input"}, mode : {"apply"}, mat : MatChoices,
     stress_trial : TrialChoices, ep_old : EpChoices, results : {<< >>}]

ComputeJobs ==
    {j \in [stage : {"input"}, mode : {"compute"}, mat : MatChoices,
            F : FChoices, prior : StateChoices, heap : {<< >>},
            results : {<< >>}] :
        HasSqrt(equivalent_stress_sq(trial_of(j.mat, j.F)))}

\* Symmetric 3x3 tensors handed to tensor_to_voigt: the six independent
\* components drawn from three values, and one tensor whose components all
\* differ.
TensorEntries == {QInt(0), Q(1, 2), QInt(-3)}
SymTensor(c) ==
    << <<c[1], c[6], c[5]>>, <<c[6], c[2], c[4]>>, <<c[5], c[4], c[3]>> >>
TensorChoices ==
    {SymTensor(c) : c \in [Voigt -> TensorEntries]}
        \cup {SymTensor(QVec(<<1, 2, 3, 4, 5, 6>>))}

VoigtJobs ==
    [stage : {"input"}, mode : {"voigt"}, T : TensorChoices,
     engineering : BOOLEAN, results : {<< >>}]

\* ------------------------------------------------ material construction
\* The outcome of a constructor: it raised ValueError, or it built a material
\* whose return mapping uses yield_stress and the hardening modulus H.
Rejected == [raised |-> TRUE]
Built(E, nu, yield_stress, H) ==
    [raised |-> FALSE,
     mat |-> [E |-> E, nu |-> nu, yield_stress |-> yield_stress, H |-> H]]

\* IsotropicElastic.__init__: if not (-1.0 < nu < 0.5): raise ValueError
IsotropicElastic_raises(E, nu) == ~(QLt(QInt(-1), nu) /\ QLt(nu, Q(1, 2)))

\* PerfectPlasticity.__init__: if yield_stress <= 0: raise ValueError
PerfectPlasticity_raises(yield_stress) == QLe(yield_stress, QInt(0))

\* LinearIsotropicHardening.__init__: yield_stress <= 0 or H < 0 raises
LinearIsotropicHardening_raises(yield_stress, H) ==
    QLe(yield_stress, QInt(0)) \/ QLt(H, QInt(0))

\* J2PlasticMaterial.__init__: the elastic law is built first; hardening == 0
\* selects PerfectPlasticity (modulus 0), any other value
\* LinearIsotropicHardening(yield_stress, hardening).
J2PlasticMaterial_init(E, nu, yield_stress, hardening) ==
    IF IsotropicElastic_raises(E, nu) THEN Rejected
    ELSE IF hardening = QInt(0)
    THEN (IF PerfectPlasticity_raises(yield_stress) THEN Rejected
          ELSE Built(E, nu, yield_stress, QInt(0)))
    ELSE (IF LinearIsotropicHardening_raises(yield_stress, hardening)
          THEN Rejected
          ELSE Built(E, nu, yield_stress, hardening))

\* min_hardening = E * 1e-4
min_hardening(E) == QMul(E, Q(1, 10000))

\* if hardening < min_hardening: hardening = min_hardening
numerical_hardening(E, hardening) ==
    IF QLt(hardening, min_hardening(E)) THEN min_hardening(E) ELSE hardening

\* yield_stress=1e30 of a material that is to stay elastic; 1e9 here, above
\* every stress of the model
HugeYield == QInt(1000000000)

\* MaterialFactory.create_elastic
create_elastic(E, nu) == J2PlasticMaterial_init(E, nu, HugeYield, QInt(0))

\* MaterialFactory.create_j2_plastic
create_j2_plastic(E, nu, yield_stress, hardening) ==
    J2PlasticMaterial_init(E, nu, yield_stress, numerical_hardening(E, hardening))

\* MaterialFactory.create_perfect_plastic
create_perfect_plastic(E, nu, yield_stress) ==
    J2PlasticMaterial_init(E, nu, yield_stress, min_hardening(E))

\* MaterialFactory.create with E and nu present: with a plastic section the
\* hardening is raised to the floor, without one the material is elastic.
MaterialFactory_create(E, nu, has_plastic, yield_stress, hardening) ==
    IF has_plastic
    THEN J2PlasticMaterial_init(E, nu, yield_stress,
                                numerical_hardening(E, hardening))
    ELSE J2PlasticMaterial_init(E, nu, HugeYield, QInt(0))

\* Parameters handed to the constructors: Poisson ratios inside, on and
\* outside the bounds, yield stresses and hardening moduli of every sign, a
\* hardening below the floor E * 1e-4 = 1/2000 and one exactly on it.
NuChoices == {Q(1, 4), Q(-1, 2), QInt(-1), Q(1, 2), Q(-3, 2)}
YieldArgChoices == {QInt(1), QInt(0), QInt(-1)}
HardeningArgChoices == {QInt(-1), QInt(0), Q(1, 4000), Q(1, 2000), QInt(2)}
ConstructionPaths ==
    {"J2PlasticMaterial", "create", "create_elastic", "create_j2_plastic",
     "create_perfect_plastic"}

\* Which arguments a construction path takes
TakesYield(j) ==
    j.path \in {"J2PlasticMaterial", "create_j2_plastic",
                "create_perfect_plastic"}
        \/ (j.path = "create" /\ j.has_plastic)
TakesHardening(j) ==
    j.path \in {"J2PlasticMaterial", "create_j2_plastic"}
        \/ (j.path = "create" /\ j.has_plastic)

\* One job per path and argument list; an argument the path does not take is
\* held at one value.
ConstructJobs ==
    {j \in [stage : {"input"}, mode : {"construct"}, path : ConstructionPaths,
            E : {QInt(5)}, nu : NuChoices, has_plastic : BOOLEAN,
            yield_stress : YieldArgChoices, hardening : HardeningArgChoices,
            results : {<< >>}] :
        /\ (j.path # "create") => j.has_plastic
        /\ ~TakesYield(j) => j.yield_stress = QInt(1)
        /\ ~TakesHardening(j) => j.hardening = QInt(0)}

InitMat ==
    /\ SolverNotRun
    /\ asm_job = NoJob /\ bc_job = NoJob /\ elem_job = NoJob
    /\ mat_job \in ApplyJobs
                   \cup {[j EXCEPT !.heap = j.prior.heap] : j \in ComputeJobs}
                   \cup VoigtJobs
                   \cup ConstructJobs

\* One call of RadialReturn.apply
ApplyReturnMapping ==
    /\ mat_job.stage = "input" /\ mat_job.mode = "apply"
    /\ mat_job' = [mat_job EXCEPT
                     !.stage = "done",
                     !.results = <<RadialReturn_apply(mat_job.mat,
                                     mat_job.stress_trial, mat_job.ep_old)>>]
    /\ UNCHANGED <<solver_vars, asm_job, bc_job, elem_job>>

\* First call of J2PlasticMaterial.compute_stress(F, state)
ComputeFirst ==
    /\ mat_job.stage = "input" /\ mat_job.mode = "compute"
    /\ LET r == J2_compute_stress(mat_job.mat, mat_job.F, mat_job.heap,
                                  mat_job.prior.id)
       IN  mat_job' = [mat_job EXCEPT
                         !.stage = "once",
                         !.heap = r.heap,
                         !.results = <<r>>]
    /\ UNCHANGED <<solver_vars, asm_job, bc_job, elem_job>>

\* Second call with the same F and the same state object
ComputeSecond ==
    /\ mat_job.stage = "once" /\ mat_job.mode = "compute"
    /\ LET r == J2_compute_stress(mat_job.mat, mat_job.F, mat_job.heap,
                                  mat_job.prior.id)
       IN  mat_job' = [mat_job EXCEPT
                         !.stage = "twice",
                         !.heap = r.heap,
                         !.results = Append(mat_job.results, r)]
    /\ UNCHANGED <<solver_vars, asm_job, bc_job, elem_job>>

\* tensor_to_voigt followed by voigt_to_tensor with the same flag
VoigtRoundTrip ==
    /\ mat_job.stage = "input" /\ mat_job.mode = "voigt"
    /\ \E v \in {tensor_to_voigt(mat_job.T, mat_job.engineering)} :
          mat_job' = [mat_job EXCEPT
                        !.stage = "converted",
                        !.results = <<[voigt |-> v,
                                       tensor |-> voigt_to_tensor(v,
                                                    mat_job.engineering)]>>]
    /\ UNCHANGED <<solver_vars, asm_job, bc_job, elem_job>>

\* The construction of a material on the job's path
ConstructMaterial ==
    /\ mat_job.stage = "input" /\ mat_job.mode = "construct"
    /\ mat_job' =
         [mat_job EXCEPT
            !.stage = "constructed",
            !.results =
               <<CASE mat_job.path = "J2PlasticMaterial" ->
                        J2PlasticMaterial_init(mat_job.E, mat_job.nu,
                            mat_job.yield_stress, mat_job.hardening)
                   [] mat_job.path = "create" ->
                        MaterialFactory_create(mat_job.E, mat_job.nu,
                            mat_job.has_plastic, mat_job.yield_stress,
                            mat_job.hardening)
                   [] mat_job.path = "create_elastic" ->
                        create_elastic(mat_job.E, mat_job.nu)
                   [] mat_job.path = "create_j2_plastic" ->
                        create_j2_plastic(mat_job.E, mat_job.nu,
                            mat_job.yield_stress, mat_job.hardening)
                   [] mat_job.path = "create_perfect_plastic" ->
                        create_perfect_plastic(mat_job.E, mat_job.nu,
                            mat_job.yield_stress)>>]
    /\ UNCHANGED <<solver_vars, asm_job, bc_job, elem_job>>

NextMat ==
    \/ ApplyReturnMapping
    \/ ComputeFirst
    \/ ComputeSecond
    \/ VoigtRoundTrip
    \/ ConstructMaterial

SpecMat == InitMat /\ [][NextMat]_vars

\* ------------------------------------------------- return mapping claims
ApplyDone == mat_job.stage = "done" /\ mat_job.mode = "apply"

\* sigma_eq(trial) <= sigma_y(ep_old) for the inputs of the apply call
TrialInsideYield ==
    QLe(equivalent_stress(mat_job.stress_trial),
        get_yield_stress(mat_job.mat, mat_job.ep_old))

\* C17: for every trial stress and prior equivalent plastic strain with
\* sigma_eq(trial) <= sigma_y(eps_p), RadialReturn.apply returns the trial
\* stress unchanged, the elastic matrix D as tangent, the prior equivalent
\* plastic strain unchanged and is_plastic = false.
C17_ElasticBranchIsNoOp ==
    (ApplyDone /\ TrialInsideYield) =>
        LET r == mat_job.results[1]
        IN  /\ r.stress = mat_job.stress_trial
            /\ r.tangent = build_D_matrix(mat_job.mat)
            /\ r.ep = mat_job.ep_old
            /\ r.is_plastic = FALSE

\* An elastic call exactly on the yield surface, with shear and with a
\* hardened yield stress.
C17_Witness ==
    /\ ApplyDone
    /\ equivalent_stress(mat_job.stress_trial)
         = get_yield_stress(mat_job.mat, mat_job.ep_old)
    /\ mat_job.stress_trial[6] # QInt(0)
    /\ mat_job.mat.H # QInt(0) /\ mat_job.ep_old # QInt(0)
    /\ mat_job.results[1].is_plastic = FALSE

\* C18: for every trial stress with sigma_eq(trial) > sigma_y(eps_p), shear
\* components and linear hardening included, the returned stress lies on the
\* updated yield surface, sigma_eq(returned) = sigma_y(eps_p_new) (compared
\* through the squares, both sides being non-negative), and
\* eps_p_new > eps_p.
C18_ReturnedStressOnYieldSurface ==
    (ApplyDone /\ ~TrialInsideYield) =>
        LET r == mat_job.results[1]
            sigma_y_new == get_yield_stress(mat_job.mat, r.ep)
        IN  /\ equivalent_stress_sq(r.stress) = QMul(sigma_y_new, sigma_y_new)
            /\ QLt(mat_job.ep_old, r.ep)

\* ------------------------------------------------------ tangent symmetry
Symmetric(M) == \A i \in Voigt : \A j \in Voigt : M[i][j] = M[j][i]

\* C19: the 6x6 tangent returned by the constitutive model is symmetric,
\* tangent[i][j] = tangent[j][i], on the elastic and on the plastic branch,
\* for every trial stress and prior state, from RadialReturn.apply and from
\* J2PlasticMaterial.compute_stress alike.
C19_TangentSymmetric ==
    mat_job.stage \in {"done", "once", "twice"} =>
        \A k \in 1..Len(mat_job.results) : Symmetric(mat_job.results[k].tangent)

\* A plastic call whose flow direction has normal and shear components, the
\* tangent differing from D, under linear hardening and prior plastic strain.
C19_Witness ==
    /\ ApplyDone
    /\ mat_job.results[1].is_plastic
    /\ mat_job.stress_trial[6] # QInt(0)
    /\ mat_job.stress_trial[1] # mat_job.stress_trial[2]
    /\ mat_job.mat.H # QInt(0) /\ mat_job.ep_old # QInt(0)
    /\ mat_job.results[1].tangent # build_D_matrix(mat_job.mat)
    /\ mat_job.results[1].tangent[1][6] # QInt(0)

\* ------------------------------------------------- purity of compute_stress
\* The fields of the state object a result refers to
ResultState(k) == mat_job.heap[mat_job.results[k].state]

\* C20: J2PlasticMaterial.compute_stress never modifies the state object
\* passed in and keeps no hidden state: two calls with the same deformation
\* gradient and the same prior state return identical stress, tangent, new
\* state and is_plastic, and the prior state's fields are after each call
\* what they were before.
C20_ComputeStressLeavesInputAlone ==
    /\ (mat_job.stage \in {"once", "twice"} /\ mat_job.prior.id # 0) =>
          mat_job.heap[mat_job.prior.id] = mat_job.prior.heap[mat_job.prior.id]
    /\ mat_job.stage = "twice" =>
          /\ mat_job.results[1].stress = mat_job.results[2].stress
          /\ mat_job.results[1].tangent = mat_job.results[2].tangent
          /\ mat_job.results[1].is_plastic = mat_job.results[2].is_plastic
          /\ ResultState(1) = ResultState(2)

\* Two plastic calls under linear hardening on a state with history: the new
\* state differs from the prior one, which a second call would notice had
\* the first one written to it.
C20_Witness ==
    /\ mat_job.stage = "twice"
    /\ mat_job.prior.id # 0
    /\ mat_job.mat.H # QInt(0)
    /\ mat_job.results[2].is_plastic
    /\ mat_job.results[1].state # mat_job.results[2].state
    /\ ResultState(2) # mat_job.prior.heap[mat_job.prior.id]
    /\ ResultState(2).plastic_strain
          = mat_job.prior.heap[mat_job.prior.id].plastic_strain
    /\ mat_job.prior.heap[mat_job.prior.id].equivalent_plastic_strain # QInt(0)

\* ------------------------------------------------------ Voigt conversions
\* C21: for every symmetric 3x3 tensor T,
\* voigt_to_tensor(tensor_to_voigt(T, engineering), engineering) = T when
\* both directions use the same flag, the vector being ordered
\* (xx, yy, zz, yz, xz, xy).
C21_VoigtRoundTrip ==
    (mat_job.stage = "converted") =>
        LET r == mat_job.results[1]
            f == IF mat_job.engineering THEN QInt(2) ELSE QInt(1)
        IN  /\ r.tensor = mat_job.T
            /\ r.voigt[1] = mat_job.T[1][1]
            /\ r.voigt[2] = mat_job.T[2][2]
            /\ r.voigt[3] = mat_job.T[3][3]
            /\ r.voigt[4] = QMul(f, mat_job.T[2][3])
            /\ r.voigt[5] = QMul(f, mat_job.T[1][3])
            /\ r.voigt[6] = QMul(f, mat_job.T[1][2])

\* A round trip in the engineering form of a tensor whose six components
\* all differ: the shear entries of the vector are twice the tensor's.
C21_Witness ==
    /\ mat_job.stage = "converted"
    /\ mat_job.engineering
    /\ mat_job.T = SymTensor(QVec(<<1, 2, 3, 4, 5, 6>>))
    /\ mat_job.results[1].voigt = QVec(<<1, 2, 3, 8, 10, 12>>)
    /\ mat_job.results[1].tensor[1][2] = QInt(6)

\* --------------------------------------------------- construction claims
\* C22: a material constructed with invalid parameters is rejected with an
\* error at construction time on every path (J2PlasticMaterial and each
\* MaterialFactory method): a Poisson ratio outside (-1, 0.5), a yield
\* stress that is zero or negative, or a negative hardening modulus never
\* yields a material object.
C22_InvalidParametersRejected ==
    (mat_job.stage = "constructed"
       /\ \/ IsotropicElastic_raises(mat_job.E, mat_job.nu)
          \/ (TakesYield(mat_job) /\ QLe(mat_job.yield_stress, QInt(0)))
          \/ (TakesHardening(mat_job) /\ QLt(mat_job.hardening, QInt(0))))
        => mat_job.results[1].raised

\* C23: every plastic material, however it is constructed
\* (MaterialFactory.create with a plastic section, create_j2_plastic,
\* create_perfect_plastic, J2PlasticMaterial), uses in its return mapping a
\* hardening modulus H >= E * 1e-4, and a requested hardening at or above
\* that floor is kept unchanged.
C23_HardeningFloorEnforced ==
    (mat_job.stage = "constructed" /\ TakesYield(mat_job)
       /\ ~mat_job.results[1].raised)
        => /\ QLe(min_hardening(mat_job.E), mat_job.results[1].mat.H)
           /\ (TakesHardening(mat_job)
                 /\ QLe(min_hardening(mat_job.E), mat_job.hardening))
                => mat_job.results[1].mat.H = mat_job.hardening

\* ------------------------------------------------------- step target time
\* A step attempt is under way: its target time is current_time + dt
InStepAttempt == pc \in {"iter", "linsolve", "ls", "control"}

\* C24: the target time current_time + dt of every step attempt never
\* exceeds total_time, and when solve ends by reaching the end of the
\* analysis the committed pseudo-time equals total_time exactly.
C24_TargetTimeWithinTotalTime ==
    /\ InStepAttempt => current_time + dt <= cfg.end_time
    /\ (pc = "returned" /\ converged /\ ~interrupt)
          => current_time = cfg.end_time

\* ------------------------------------------------------------ line search
\* The damping factors evaluated by the passes 0..k of _line_search, in
\* units of 1/32: 1, 1/2, ... down to the factor of pass k
EvaluatedFactors(k) == {AlphaOne \div Pow2(i) : i \in 0..k}

\* The step in which _line_search returns and solve applies the factor
LineSearchReturns == pc = "ls" /\ pc' \in {"iter", "control"}

\* C25: the line search evaluates at most 5 damping factors 1, 1/2, 1/4,
\* 1/8, 1/16 in that order, and the factor it returns, which the solver
\* applies to the Newton increment, lies in (0, 1] and is one of the
\* factors evaluated (the first to satisfy the Armijo condition, or an
\* evaluated one that lowered the residual norm).
C25_ReturnedFactorWasEvaluated ==
    [][LineSearchReturns =>
         /\ ls.ls_iter < max_ls_iter
         /\ ls.alpha = AlphaOne \div Pow2(ls.ls_iter)
         /\ \E a \in EvaluatedFactors(ls.ls_iter) :
               /\ 0 < a /\ a <= AlphaOne
               /\ du_accum' = VecAdd(du_accum, VecScale(a, du))]_vars

\* ------------------------------------------------------ step-size growth
\* Jobs with room for six and seven Newton iterations per step, sound TL
\* elements, no cancellation, linear solves that succeed and a line search
\* that accepts the full increment: the steps converge after 0..6 Newton
\* increments or not at all.
GrowEndTimes == {3 * Micro, 16 * Micro}
GrowMaxIterChoices == {6, 7}

InitGrow ==
    /\ asm_job = NoJob /\ bc_job = NoJob /\ mat_job = NoJob
    /\ elem_job = NoJob
    /\ cfg \in [end_time : GrowEndTimes, initial_dt : {2 * Micro},
                max_iter : GrowMaxIterChoices, tol : TolChoices,
                form : {"TL"}, badAt : {[e \in Elems |-> 0]}]
    /\ pc = "step"
    /\ current_time = 0
    /\ dt = cfg.initial_dt
    /\ iter_i = 0
    /\ converged = FALSE
    /\ u_current = Zero
    /\ du_accum = Zero
    /\ asm = NoAsm
    /\ calls = << >>
    /\ res_norm = 0
    /\ du = Zero
    /\ ls = LsIdle
    /\ gp_states_committed = [e \in Elems |-> init_gp_states]
    /\ gp_states_current = [e \in Elems |-> init_gp_states]
    /\ interrupt = FALSE
    /\ ret = Zero
    /\ signal = "none"
    /\ attempts = 0
    /\ written_at = [e \in Elems |-> [g \in GP |-> NotWritten]]

NextGrow ==
    \/ StepBegin
    \/ \E outs \in Outs(u_trial(u_current, du_accum)), r \in ResVals :
          NewtonIteration(outs, r)
    \/ LinearSolve(FALSE, DuOk)
    \/ \E outs \in Outs(ls_u_trial(VecAdd(u_current, du_accum),
                                          ls.alpha, du)) :
          LineSearchIter(outs, 5000)
    \/ StepControl
    \/ WorkerAfterSolve

SpecGrow == InitGrow /\ [][NextGrow]_vars

\* Newton increments applied in the step so far: every one adds the full
\* increment DuOk, whose first component is 1
IncrementsApplied == du_accum[1] \div AlphaOne

\* C26: after a step converges, the step size is multiplied by 1.5 exactly
\* when fewer than 5 Newton iterations (solutions of the linear system and
\* updates of the increment) were needed for the convergence, and is left
\* unchanged otherwise, apart from the clamp at the end time.
C26_GrowthIffFewerThanFiveIterations ==
    [][(pc = "control" /\ converged) =>
         LET grown == IF IncrementsApplied < 5 THEN (dt * 3) \div 2 ELSE dt
             t1 == current_time + dt
         IN  dt' = IF t1 + grown > cfg.end_time
                   THEN cfg.end_time - t1 + ClampEps
                   ELSE grown]_vars

\* A first step that converged after exactly five Newton increments, away
\* from the end time: the step size is still the initial one.
C26_Witness ==
    /\ pc = "step" /\ attempts = 1 /\ converged
    /\ IncrementsApplied = 5
    /\ current_time = cfg.initial_dt
    /\ current_time + dt < cfg.end_time
    /\ dt = cfg.initial_dt

\* ------------------------------------------- states at element construction
\* Nothing has run since the elements were constructed
JustConstructed == pc = "step" /\ attempts = 0

\* C27: immediately after an element is constructed with a J2PlasticMaterial
\* each of its 8 integration points holds a committed and a trial state that
\* are PlasticState records with all fields zero, not absent ones (and every
\* evaluation starts a point from a clone of its committed state).
C27_StatesCreatedAtConstruction ==
    JustConstructed =>
        \A e \in Elems : \A g \in GP :
            /\ gp_states_committed[e][g] = create_state
            /\ gp_states_current[e][g] = create_state

\* --------------------------- the two state generations of one element
\* One C3D8_TL / C3D8_UL element with a J2PlasticMaterial, its state objects
\* in a heap: gp_states_committed and gp_states_current hold references.
MaxElemOps == 4         \* compute_element / commit_state calls on the element

\* a clone() that returns self
PlasticState_clone_self(heap, id) == [heap |-> heap, id |-> id]

\* PlasticState.clone: return self.copy()
PlasticState_clone(heap, id) == PlasticState_copy(heap, id)

\* compute_element, one pass of the loop over the integration points from
\* point g on: the committed state is cloned if there is one, a point with a
\* degenerate Jacobian (TL: det(J0) <= 1e-12, UL: singular J_ref or
\* det(F) <= 1e-6) returns failed = True, otherwise compute_stress runs on
\* the clone and results.state is stored in gp_states_current[g].  The
\* material is a Material, so the new interface is the branch taken.
RECURSIVE compute_element_points(_, _, _, _, _, _, _)
compute_element_points(mat, F, failAt, g, heap, committed, current) ==
    IF g > NumGP
    THEN [failed |-> FALSE, heap |-> heap, current |-> current]
    ELSE Only({IF g = failAt
               THEN [failed |-> TRUE, heap |-> state_trial.heap,
                     current |-> current]
               ELSE Only({compute_element_points(mat, F, failAt, g + 1,
                              result.heap, committed,
                              [current EXCEPT ![g] = result.state]) :
                          result \in {J2_compute_stress(mat, F,
                                        state_trial.heap, state_trial.id)}}) :
               state_trial \in {IF committed[g] # 0
                                THEN PlasticState_clone(heap, committed[g])
                                ELSE [heap |-> heap, id |-> 0]}})

\* C3D8_TL.compute_element / C3D8_UL.compute_element, state part
C3D8_compute_element(mat, F, failAt, heap, committed, current) ==
    compute_element_points(mat, F, failAt, 1, heap, committed, current)

\* C3D8_Nonlinear_Base.commit_state from point g on: a trial state that is
\* not None is cloned into the committed generation.
RECURSIVE commit_state_points(_, _, _, _)
commit_state_points(g, heap, committed, current) ==
    IF g > NumGP
    THEN [heap |-> heap, committed |-> committed]
    ELSE IF current[g] # 0
    THEN Only({commit_state_points(g + 1, c.heap,
                   [committed EXCEPT ![g] = c.id], current) :
               c \in {PlasticState_clone(heap, current[g])}})
    ELSE commit_state_points(g + 1, heap, committed, current)

C3D8_commit_state(heap, committed, current) ==
    commit_state_points(1, heap, committed, current)

\* Deformation gradients of the element's evaluations: none and a stretch
ElemFChoices ==
    {<< <<1, 0, 0>>, <<0, 1, 0>>, <<0, 0, 1>> >>,
     << <<2, 0, 0>>, <<0, 1, 0>>, <<0, 0, 1>> >>}

ElemMatChoices ==
    {m \in MatChoices :
        /\ m.yield_stress = QInt(1)
        /\ \A F \in ElemFChoices : HasSqrt(equivalent_stress_sq(trial_of(m, F)))}

\* Points at which an evaluation can fail: a degenerate reference Jacobian
\* belongs to the mesh and fails the same point in every call; UL also fails
\* where det(F) <= 1e-6, which depends on the displacement.
ElemFailChoices(job, F) ==
    IF job.badAt # 0 THEN {job.badAt}
    ELSE IF job.form = "UL" /\ F # << <<1, 0, 0>>, <<0, 1, 0>>, <<0, 0, 1>> >>
    THEN {0} \cup FailPoints
    ELSE {0}

\* _init_gp_states with a material that has no create_initial_state
InitElem ==
    /\ SolverNotRun
    /\ asm_job = NoJob /\ bc_job = NoJob /\ mat_job = NoJob
    /\ elem_job \in [stage : {"constructed"}, mat : ElemMatChoices,
                     form : Formulations, badAt : {0} \cup FailPoints,
                     heap : {<< >>},
                     committed : {[g \in GP |-> 0]},
                     current : {[g \in GP |-> 0]},
                     ops : {0}, last : {"init"}, failed : {FALSE},
                     since_commit : {0}]

\* One call of compute_element
ElemComputeElement(F, failAt) ==
    /\ elem_job.stage = "constructed"
    /\ elem_job.ops < MaxElemOps
    /\ failAt \in ElemFailChoices(elem_job, F)
    /\ \E r \in {C3D8_compute_element(elem_job.mat, F, failAt, elem_job.heap,
                     elem_job.committed, elem_job.current)} :
          elem_job' = [elem_job EXCEPT
                         !.heap = r.heap,
                         !.current = r.current,
                         !.ops = @ + 1,
                         !.last = "compute_element",
                         !.failed = r.failed,
                         !.since_commit = @ + 1]
    /\ UNCHANGED <<solver_vars, asm_job, bc_job, mat_job>>

\* One call of commit_state
ElemCommitState ==
    /\ elem_job.stage = "constructed"
    /\ elem_job.ops < MaxElemOps
    /\ \E r \in {C3D8_commit_state(elem_job.heap, elem_job.committed,
                                   elem_job.current)} :
          elem_job' = [elem_job EXCEPT
                         !.heap = r.heap,
                         !.committed = r.committed,
                         !.ops = @ + 1,
                         !.last = "commit_state",
                         !.failed = FALSE,
                         !.since_commit = 0]
    /\ UNCHANGED <<solver_vars, asm_job, bc_job, mat_job>>

NextElem ==
    \/ \E F \in ElemFChoices, failAt \in {0} \cup FailPoints :
          ElemComputeElement(F, failAt)
    \/ ElemCommitState

SpecElem == InitElem /\ [][NextElem]_vars

\* the committed generation by value: per point the fields of the object
\* referred to, or the marker of None
CommittedValues ==
    [g \in GP |->
        IF elem_job.committed[g] = 0 THEN <<"None", PlasticState_new>>
        ELSE <<"PlasticState", elem_job.heap[elem_job.committed[g]]>>]

\* no object is referred to from both generations
NoSharedObject ==
    \A g \in GP, h \in GP :
        elem_job.committed[g] # 0 => elem_job.committed[g] # elem_job.current[h]

\* C28: compute_element never changes a committed integration-point state,
\* whether it succeeds or fails part-way and however often it is called
\* between commits; only commit_state changes the committed generation, and
\* the two generations share no object, so writing to a trial state cannot
\* change a committed one.
C28_CommittedChangedOnlyByCommit ==
    /\ [](elem_job.stage = "constructed" => NoSharedObject)
    /\ [][(elem_job.stage = "constructed"
            /\ CommittedValues' # CommittedValues)
           => elem_job'.last = "commit_state"]_vars

\* compute_element ran twice since the last commit, the second time failing
\* part-way, on points whose committed state differs from the trial state
C28_Witness ==
    /\ elem_job.stage = "constructed"
    /\ elem_job.last = "compute_element"
    /\ elem_job.failed
    /\ elem_job.since_commit >= 2
    /\ elem_job.committed[1] # 0
    /\ elem_job.current[1] # 0
    /\ elem_job.heap[elem_job.current[1]]
         # elem_job.heap[elem_job.committed[1]]

\* ------------------------------------------------ what a commit commits
\* C29: whenever solve commits, the trial states committed are those the
\* main assembly stored at the displacement u_current + du_accum whose
\* residual passed the tolerance test, and that displacement is what becomes
\* the committed displacement; states stored by a line-search assembly at
\* another trial displacement are never the ones committed.
C29_CommitsStatesOfConvergedAssembly ==
    [][current_time' # current_time =>
         /\ res_norm < cfg.tol
         /\ \A e \in Elems : \A g \in GP :
               /\ written_at[e][g] =
                    [by |-> "main", u |-> VecAdd(u_current, du_accum)]
               /\ gp_states_committed'[e][g] = gp_states_current[e][g]
         /\ u_current' = VecAdd(u_current, du_accum)]_vars

\* a step was committed whose increment was damped: the line search of that
\* step assembled at the undamped trial displacement first
C29_Witness ==
    /\ current_time > 0
    /\ u_current[1] > 0
    /\ u_current[1] < AlphaOne
    /\ \A e \in Elems : \A g \in GP :
          gp_states_committed[e][g].kind = "PlasticState"

\* ------------------------------------------------------------ termination
\* The steps of the worker thread inside solve.  The thread runs until solve
\* returns or raises, so a step of solve that stays possible is taken; the
\* GUI thread may or may not ask for an interruption.
SolveStep ==
    \/ StepBegin
    \/ \E outs \in Outs(u_trial(u_current, du_accum)), r \in ResVals :
          NewtonIteration(outs, r)
    \/ \E raises \in BOOLEAN, d \in DuChoices : LinearSolve(raises, d)
    \/ \E outs \in Outs(ls_u_trial(VecAdd(u_current, du_accum),
                                          ls.alpha, du)), rn \in LsResVals :
          LineSearchIter(outs, rn)
    \/ StepControl

\* Jobs of the termination check: UL elements on a sound mesh, so that an
\* evaluation can fail for its deformation in any assembly
InitLive ==
    /\ asm_job = NoJob /\ bc_job = NoJob /\ mat_job = NoJob
    /\ elem_job = NoJob
    /\ cfg \in [end_time : EndTimeChoices, initial_dt : Dt0Choices,
                max_iter : MaxIterChoices, tol : TolChoices,
                form : {"UL"}, badAt : {[e \in Elems |-> 0]}]
    /\ pc = "step"
    /\ current_time = 0
    /\ dt = cfg.initial_dt
    /\ iter_i = 0
    /\ converged = FALSE
    /\ u_current = Zero
    /\ du_accum = Zero
    /\ asm = NoAsm
    /\ calls = << >>
    /\ res_norm = 0
    /\ du = Zero
    /\ ls = LsIdle
    /\ gp_states_committed = [e \in Elems |-> init_gp_states]
    /\ gp_states_current = [e \in Elems |-> init_gp_states]
    /\ interrupt = FALSE
    /\ ret = Zero
    /\ signal = "none"
    /\ attempts = 0
    /\ written_at = [e \in Elems |-> [g \in GP |-> NotWritten]]

NextLive ==
    \/ SolveStep
    \/ WorkerAfterSolve
    \/ WorkerExcept

SpecLive == InitLive /\ [][NextLive]_vars /\ WF_vars(SolveStep)

\* solve has returned or raised
SolveEnded == pc \in {"returned", "raised", "end"}

\* C30: for total_time > 0, initial_dt > 0 and max_iter >= 1 solve ends
\* under every sequence of outcomes of its iterations: every failed step
\* halves the step size, every converged step advances the committed time,
\* and the loop over the steps does not go on forever.
C30_SolveTerminates ==
    /\ <>SolveEnded
    /\ [][(pc = "control" /\ pc' # "control") =>
            IF converged THEN current_time' > current_time
            ELSE dt' * 2 = dt /\ current_time' = current_time]_vars

\* solve was stopped by the step-size threshold after a cutback, a converged
\* step that grew the step size, and another cutback
C30_Witness ==
    /\ pc = "returned"
    /\ ~interrupt
    /\ attempts >= 3
    /\ current_time > 0
    /\ dt < min_dt

====
